---- MODULE Spec2Model ----
(***************************************************************************)
(* ClawBeam: log tailer -> classifier -> timed state machine -> WLED       *)
(* client.  The module models                                              *)
(*   - the package StateMachine (src/clawbeam/state_machine.py) driven by  *)
(*     the Orchestrator's transition observer (src/clawbeam/main.py),      *)
(*   - the top-level StateMachine (src/state_machine.py),                  *)
(*   - the WledClient's rate gate and retry loop                           *)
(*     (src/clawbeam/wled_client.py),                                      *)
(*   - tail_file (src/clawbeam/session_watcher.py, src/session_watcher.py) *)
(* Time is a discrete monotonic clock `now`; asyncio tasks are modelled as *)
(* processes that take one atomic step between two suspension points.      *)
(***************************************************************************)
EXTENDS Integers, Sequences, FiniteSets, TLC

VARIABLES
    sys,                    \* which component this behaviour runs
    now,                    \* time.monotonic()
    cfg,                    \* StateMachineConfig
    state,                  \* StateMachine._state
    state_entered_at,       \* StateMachine._state_entered_at
    last_transition_times,  \* StateMachine._last_transition_times
    idle_task,              \* StateMachine._idle_task (a watcher task or None)
    lock_holder,            \* StateMachine._lock: the task that holds it
    lock_waiters,           \* StateMachine._lock: FIFO of waiting tasks
    task,                   \* the asyncio tasks: position and locals
    calls,                  \* number of entry-point calls made so far
    fails,                  \* number of apply_state calls that returned False
    observed,               \* the observer's last call: <<old, new, at, by>>
    fired,                  \* per (old, new): when the observer last saw it (top level: of the last two commits)
    outcome,                \* how the latest transition request ended
    handled,                \* the latest handle_event call: its event, the
                            \* target state the routine derived from it, and
                            \* the time of the call
    quiet,                  \* "pending_a/b": a non-IDLE state was committed and
                            \* no entry point was called (or is in progress)
                            \* since; "returned": and the idle timer then
                            \* committed IDLE; "no" otherwise
    last_activity,          \* top-level StateMachine._last_activity
    last_transition_key,    \* top-level StateMachine._last_transition_key
    last_transition_time,   \* top-level StateMachine._last_transition_time
    wcfg,                   \* WledConfig: min_interval, health_check_interval
    last_request_time,      \* WledClient._last_request_time
    rate_holder,            \* WledClient._rate_lock: the task that holds it
    rate_waiters,           \* WledClient._rate_lock: FIFO of waiting tasks
    healthy,                \* WledClient._healthy
    closed,                 \* the HTTP client has been released (aclose)
    wtask,                  \* the tasks inside the client: position and locals
    posts,                  \* number of apply_state calls made so far
    gate,                   \* the last two times a request left _rate_limit
    wire,                   \* the last request handed to the HTTP client
    variant,                \* tail_file of the package or of the top level
    file,                   \* the bytes of the tailed file
    unwritten,              \* bytes the writer has still to append
    fh,                     \* tail_file's read position in the file
    buffer,                 \* tail_file's buffer (decoded characters)
    yielded,                \* the lines tail_file has yielded so far
    tail_pc,                \* tail_file's position
    start_pos,              \* the end of the file when tail_file seeked to it
    stop_event,             \* asyncio.Event stop_event
    parser,                 \* parse_line of the package or of the top level
    line,                   \* the text handed to parse_line
    parsed,                 \* what parse_line did with it
    sessions_dir,           \* the *.jsonl directory: name -> mtime, content
    selected,               \* what _latest_session returned for it
    mtime_clock,            \* the file system's clock (one tick per write)
    dir_exists,             \* whether the sessions directory exists
    watcher,                \* watch_sessions of the package or the top level
    watch_stop,             \* watch_sessions' stop_event
    watch_pc,               \* watch_sessions' position
    current_path,           \* `latest` (package) / `current_path` (top level)
    handle,                 \* the open log file handle and its position
    line_buffer,            \* the buffer of the tail_file it runs (top level)
    inner_stop,             \* asyncio.Event inner_stop (top level)
    checker,                \* the _check_newer task's position (top level)
    emitted                 \* the lines watch_sessions has yielded

\* the fields both StateMachine variants have, and the tasks
smVars == <<cfg, state, state_entered_at, idle_task, task, calls, fails,
            observed, fired, outcome, handled, quiet>>
\* the package variant's own fields
pkgVars == <<last_transition_times, lock_holder, lock_waiters>>
\* the top-level variant's own fields
topVars == <<last_activity, last_transition_key, last_transition_time>>

\* the WledClient
wledVars == <<wcfg, last_request_time, rate_holder, rate_waiters, healthy,
              closed, wtask, posts, gate, wire>>
\* tail_file
tailVars == <<variant, file, unwritten, fh, buffer, yielded, tail_pc,
              start_pos, stop_event>>
\* parse_line
parseVars == <<parser, line, parsed>>
\* _latest_session and watch_sessions
dirVars == <<sessions_dir, selected, mtime_clock, dir_exists>>
watchVars == <<watcher, watch_stop, watch_pc, current_path, handle,
               line_buffer, inner_stop, checker, emitted>>
restVars == <<parseVars, dirVars, watchVars>>
ioVars == <<wledVars, tailVars, restVars>>

vars == <<sys, now, smVars, pkgVars, topVars, ioVars>>

--------------------------------------------------------------------------
(* Bounds of the model *)

MaxTime == 3
MaxCalls == 3
MaxFails == 2

--------------------------------------------------------------------------
(* LampState, EventType and the event -> state mapping *)

None == "None"
NoTime == -1

LampState == {"IDLE", "USER_INPUT", "THINKING", "TOOL_CALL", "TOOL_SUCCESS",
              "TOOL_ERROR", "NETWORK_ERROR", "HIGH_TOKENS"}

EventType == {"USER_INPUT", "ASSISTANT", "TOOL_CALL", "TOOL_RESULT_SUCCESS",
              "TOOL_RESULT_ERROR", "UNKNOWN"}

\* The events the model feeds to handle_event (token_count 0: no count).
EventInputs ==
    {[event_type |-> "USER_INPUT", token_count |-> 0],
     [event_type |-> "ASSISTANT", token_count |-> 0],
     [event_type |-> "ASSISTANT", token_count |-> 5000],
     [event_type |-> "UNKNOWN", token_count |-> 0]}

\* handle_event's mapping.get(event.event_type, LampState.IDLE)
mapping(event_type) ==
    CASE event_type = "USER_INPUT"          -> "USER_INPUT"
      [] event_type = "ASSISTANT"           -> "THINKING"
      [] event_type = "TOOL_CALL"           -> "TOOL_CALL"
      [] event_type = "TOOL_RESULT_SUCCESS" -> "TOOL_SUCCESS"
      [] event_type = "TOOL_RESULT_ERROR"   -> "TOOL_ERROR"
      [] OTHER                              -> "IDLE"

\* StateMachineConfig values the model is run with (idle_timeout 0: no timer).
MinDurations == {0, 2}
DebounceWindows == {0, 2}
IdleTimeouts == {0, 1, 2}

StateMachineConfig ==
    [min_state_duration : MinDurations,
     debounce_window : DebounceWindows,
     idle_timeout : IdleTimeouts]

--------------------------------------------------------------------------
(* Tasks of the package state machine *)

Callers == {"main", "aux"}          \* tasks that call the public entry points
Watchers == {"w1", "w2"}            \* _idle_watcher tasks
Tasks == Callers \cup Watchers

\* exc: the exception the task's last call ended with (None: it returned)
NoTask == [pc |-> "idle", ep |-> None, new |-> None, watched |-> None,
           wake |-> NoTime, must_cancel |-> FALSE, exc |-> None]

Remove(q, t) == SelectSeq(q, LAMBDA x : x # t)

\* AcquireFast with the lock ignored
AcquireFast_NoLock == TRUE

\* asyncio.Lock.acquire returns at once only when the lock is free and nobody
\* waits for it.
AcquireFast == lock_holder = None /\ lock_waiters = <<>>

\* TooSoon with the minimum-duration check left out
TooSoon_Off == FALSE

\* _do_transition line 61: now - self._state_entered_at < min_dur
TooSoon == now - state_entered_at < cfg.min_state_duration

\* Debounced with the debounce check left out
Debounced_Off(key) == FALSE

\* _do_transition lines 65-68: the same (old, new) key fired within the window
Debounced(key) ==
    LET last == last_transition_times[key] IN
    last # NoTime /\ (now - last) < cfg.debounce_window

\* Admitted without the old == new test
Admitted_SameToo(new) == ~TooSoon /\ ~Debounced(<<state, new>>)

\* _do_transition lines 53-69: the request passes every early return
Admitted(new) ==
    /\ state # new
    /\ ~TooSoon
    /\ ~Debounced(<<state, new>>)

\* _do_transition lines 54-69: the early return a rejected request takes
Rejection(new) ==
    IF state = new THEN "same"
    ELSE IF TooSoon THEN "too_soon"
    ELSE "debounced"

\* The task a new _idle_watcher runs in.
FreeWatcher(busy) == CHOOSE w \in Watchers : w \notin busy

\* the idle task is set and not done
IdlePending == idle_task # None /\ task[idle_task].pc # "idle"

\* CancelIdle with the pending idle task left alone
CancelIdle_Never(t) == task

\* _do_transition lines 77-79: cancel the pending idle task.  A task cancelled
\* while it is suspended (in its sleep, or waiting for the lock) ends there;
\* a task that cancels itself runs on to its next suspension point.
CancelIdle(t) ==
    IF IdlePending
    THEN IF idle_task = t
         THEN [task EXCEPT ![t].must_cancel = TRUE]
         ELSE [task EXCEPT ![idle_task] = NoTask]
    ELSE task

\* StartsWatcher with no idle watcher ever started
StartsWatcher_Never(new) == FALSE

\* _do_transition lines 81-82: start an idle watcher for the new state
StartsWatcher(new) == new # "IDLE" /\ cfg.idle_timeout # 0

\* asyncio.create_task(self._idle_watcher(new)): the task sleeps idle_timeout
NewWatcher(new) ==
    [NoTask EXCEPT !.pc = "sleep", !.ep = "_idle_watcher", !.new = "IDLE",
                   !.watched = new, !.wake = now + cfg.idle_timeout]

\* a task whose call has returned
Returned(t) == IF t \in Watchers THEN NoTask ELSE [NoTask EXCEPT !.pc = "idle"]

\* another caller's entry-point call is still in progress
OtherCallPending(tk, t) == \E c \in Callers \ {t} : tk[c].pc # "idle"

\* a quiet period is running (consecutive periods alternate a and b)
Pending(q) == q \in {"pending_a", "pending_b"}

\* `quiet` after task t committed `new`: a commit of a non-IDLE state starts a
\* period unless another call is in progress, the idle timer's commit of IDLE
\* ends it as "returned"
QuietAfter(t, ep, new) ==
    IF new # "IDLE"
    THEN (IF OtherCallPending(task, t) THEN "no"
          ELSE IF quiet = "pending_a" THEN "pending_b" ELSE "pending_a")
    ELSE (IF ep = "_idle_watcher" /\ Pending(quiet) THEN "returned" ELSE "no")

\* await self._on_transition(old, new): what the observer sees
Notify(t, ep, old, new) ==
    /\ observed' = <<old, new, now, ep>>
    /\ outcome' = "committed"
    /\ fired' = [fired EXCEPT ![<<old, new>>] = now]
    /\ quiet' = QuietAfter(t, ep, new)

\* _do_transition, run by task t once it holds the lock; `waiters` is the
\* lock's queue at that moment and q the value of `quiet` if nothing commits.
\* A rejected request returns and the lock is released; a committed one calls
\* the observer and stays in it.
do_transition(t, ep, new, waiters, q) ==
    IF Admitted(new)
    THEN LET old == state
             tk1 == CancelIdle(t)
             w == FreeWatcher({x \in Watchers : tk1[x].pc # "idle"})
             tk2 == IF StartsWatcher(new)
                    THEN [tk1 EXCEPT ![w] = NewWatcher(new)]
                    ELSE tk1
         IN /\ state' = new
            /\ state_entered_at' = now
            /\ last_transition_times' =
                   [last_transition_times EXCEPT ![<<old, new>>] = now]
            /\ idle_task' = IF StartsWatcher(new) THEN w
                            ELSE IF IdlePending THEN None ELSE idle_task
            /\ task' = [tk2 EXCEPT ![t].pc = "observer", ![t].ep = ep,
                                   ![t].new = new, ![t].exc = None]
            /\ lock_holder' = t
            /\ lock_waiters' = IF IdlePending /\ idle_task # t
                               THEN Remove(waiters, idle_task) ELSE waiters
            /\ Notify(t, ep, old, new)
    ELSE /\ task' = [task EXCEPT ![t] = Returned(t)]
         /\ lock_holder' = None
         /\ lock_waiters' = waiters
         /\ quiet' = q
         /\ outcome' = Rejection(new)
         /\ UNCHANGED <<state, state_entered_at, last_transition_times,
                        idle_task, observed, fired>>

\* async with self._lock: enter at once, or queue behind the holder.
WithLock(t, ep, new, q) ==
    IF AcquireFast
    THEN do_transition(t, ep, new, lock_waiters, q)
    ELSE /\ task' = [task EXCEPT ![t].pc = "lock", ![t].ep = ep, ![t].new = new,
                                 ![t].exc = None]
         /\ lock_waiters' = Append(lock_waiters, t)
         /\ quiet' = q
         /\ UNCHANGED <<state, state_entered_at, last_transition_times,
                        idle_task, lock_holder, observed, fired, outcome>>

--------------------------------------------------------------------------
(* Entry points of the package state machine *)

CanCall(t) == t \in Callers /\ task[t].pc = "idle" /\ calls < MaxCalls

handle_event(t, event) ==
    /\ sys = "pkg"
    /\ CanCall(t)
    /\ calls' = calls + 1
    /\ fails' = fails
    /\ handled' = [event |-> event, target |-> mapping(event.event_type),
                   at |-> now]
    /\ WithLock(t, "handle_event", mapping(event.event_type), "no")
    /\ UNCHANGED <<ioVars, sys, now, cfg, topVars>>

set_network_error(t) ==
    /\ sys = "pkg"
    /\ CanCall(t)
    /\ calls' = calls + 1
    /\ fails' = fails
    /\ WithLock(t, "set_network_error", "NETWORK_ERROR", "no")
    /\ UNCHANGED <<ioVars, handled, sys, now, cfg, topVars>>

clear_network_error(t) ==
    /\ sys = "pkg"
    /\ CanCall(t)
    /\ calls' = calls + 1
    /\ fails' = fails
    /\ WithLock(t, "clear_network_error", "IDLE", "no")
    /\ UNCHANGED <<ioVars, handled, sys, now, cfg, topVars>>

\* A task at the head of the lock's queue gets the lock once it is released.
LockGranted(t) ==
    /\ sys = "pkg"
    /\ task[t].pc = "lock"
    /\ lock_holder = None
    /\ lock_waiters # <<>>
    /\ Head(lock_waiters) = t
    /\ do_transition(t, task[t].ep, task[t].new, Tail(lock_waiters), quiet)
    /\ UNCHANGED <<ioVars, handled, sys, now, cfg, calls, fails, topVars>>

\* _idle_watcher lines 107-111: the sleep is over; if the machine is still in
\* the watched state, take the lock and request IDLE.
idle_watcher(w) ==
    /\ sys = "pkg"
    /\ w \in Watchers
    /\ task[w].pc = "sleep"
    /\ now >= task[w].wake
    /\ IF state = task[w].watched
       THEN WithLock(w, "_idle_watcher", "IDLE", quiet)
       ELSE /\ task' = [task EXCEPT ![w] = NoTask]
            /\ UNCHANGED <<state, state_entered_at, last_transition_times,
                           idle_task, lock_holder, lock_waiters, observed,
                           fired, outcome, quiet>>
    /\ UNCHANGED <<ioVars, handled, sys, now, cfg, calls, fails, topVars>>

\* Orchestrator._on_transition: apply_state succeeded (or no payload is
\* configured), the observer returns and the entry point releases the lock.
ObserverReturns(t) ==
    /\ sys = "pkg"
    /\ task[t].pc = "observer"
    /\ task' = [task EXCEPT ![t] = Returned(t)]
    /\ lock_holder' = None
    /\ UNCHANGED <<ioVars, handled, sys, now, cfg, state, state_entered_at, last_transition_times,
                   idle_task, lock_waiters, calls, fails, observed, fired, outcome,
                   quiet,
                   topVars>>

\* Orchestrator._on_transition lines 77-79: apply_state returned False, the
\* observer calls set_network_error(), whose `async with self._lock` waits for
\* the lock (held by the entry point this observer runs in).
ObserverFails(t) ==
    /\ sys = "pkg"
    /\ t \in Callers
    /\ task[t].pc = "observer"
    /\ fails < MaxFails
    /\ fails' = fails + 1
    /\ IF AcquireFast
       THEN do_transition(t, "set_network_error", "NETWORK_ERROR", lock_waiters,
                          "no")
       ELSE /\ task' = [task EXCEPT ![t].pc = "nested"]
            /\ lock_waiters' = Append(lock_waiters, t)
            /\ quiet' = "no"
            /\ UNCHANGED <<state, state_entered_at, last_transition_times,
                           idle_task, lock_holder, observed, fired, outcome>>
    /\ UNCHANGED <<ioVars, handled, sys, now, cfg, calls, topVars>>

\* the lock kept by the task that leaves `async with` with an exception
lock_aexit_Held == lock_holder

\* asyncio.Lock.__aexit__ (lines 99, 110, 120, 124): the holder of the lock
\* after `async with self._lock` is left, by a return or by an exception
lock_aexit == None

\* The observer raises an exception: _do_transition has no handler around
\* the call (lines 84-85), `async with self._lock` releases the lock on the
\* way out, and the exception leaves the entry point to its caller; in
\* _idle_watcher only CancelledError is caught (line 112), so that the task
\* ends with the exception.
ObserverRaises(t) ==
    /\ sys = "pkg"
    /\ task[t].pc = "observer"
    /\ task' = [task EXCEPT ![t] = [Returned(t) EXCEPT !.exc = "Exception"]]
    /\ lock_holder' = lock_aexit
    /\ UNCHANGED <<ioVars, handled, sys, now, cfg, state, state_entered_at, last_transition_times,
                   idle_task, lock_waiters, calls, fails, observed, fired, outcome,
                   quiet,
                   topVars>>

\* The idle watcher cancelled itself in _do_transition (line 78): the
\* CancelledError is raised at the observer's first suspension point, the
\* lock is released on the way out and _idle_watcher returns (line 112).
ObserverCancelled(w) ==
    /\ sys = "pkg"
    /\ w \in Watchers
    /\ task[w].pc = "observer"
    /\ task[w].must_cancel
    /\ task' = [task EXCEPT ![w] = NoTask]
    /\ lock_holder' = None
    /\ UNCHANGED <<ioVars, handled, sys, now, cfg, state, state_entered_at, last_transition_times,
                   idle_task, lock_waiters, calls, fails, observed, fired, outcome,
                   quiet,
                   topVars>>

\* The monotonic clock advances.
Tick ==
    /\ sys \in {"pkg", "top"}
    /\ now < MaxTime
    /\ now' = now + 1
    /\ UNCHANGED <<ioVars, sys, smVars, pkgVars, topVars>>

--------------------------------------------------------------------------
(* The package state machine's specification *)

Pairs == LampState \X LampState

\* StateMachine.__init__
SMFieldsConstructed ==
    /\ state = "IDLE"
    /\ state_entered_at = 0
    /\ idle_task = None
    /\ calls = 0
    /\ fails = 0
    /\ observed = <<>>
    /\ fired = [k \in Pairs |-> NoTime]
    /\ outcome = "none"
    /\ handled = [event |-> [event_type |-> None, token_count |-> 0],
                  target |-> None, at |-> NoTime]
    /\ quiet = "no"
    /\ last_transition_times = [k \in Pairs |-> NoTime]
    /\ lock_holder = None
    /\ lock_waiters = <<>>
    /\ last_activity = 0
    /\ last_transition_key = None
    /\ last_transition_time = 0

SMConstructed ==
    /\ SMFieldsConstructed
    /\ task = [t \in Tasks |-> NoTask]

\* the tasks inside the WledClient: callers of apply_state, the health loop
Posters == {"post"}
WledTasks == Posters \cup {"health"}

\* must_cancel: Task.cancel() was called and the CancelledError is still to
\* be raised in the task.  ret: what apply_state returned; for the health
\* task, the suspension point at which it was cancelled.  answers: the
\* answers to the call's attempts; for the health task, to its last two probes.
NoWledTask == [pc |-> "idle", attempt |-> 0, payload |-> None, wake |-> NoTime,
               sent |-> <<>>, answers |-> <<>>, ret |-> None,
               must_cancel |-> FALSE]

\* WledClient.__init__
WledFieldsConstructed ==
    /\ last_request_time = 0
    /\ rate_holder = None
    /\ rate_waiters = <<>>
    /\ healthy = TRUE
    /\ closed = FALSE
    /\ posts = 0
    /\ gate = [prev |-> NoTime, at |-> NoTime, n |-> 0, slept |-> FALSE]
    /\ wire = <<>>

WledConstructed ==
    /\ WledFieldsConstructed
    /\ wtask = [t \in WledTasks |-> NoWledTask]

\* a client nobody uses (behaviours of the other components)
WledUnused ==
    /\ wcfg = [min_interval |-> 1, health_check_interval |-> 1]
    /\ WledConstructed

\* a tail_file nobody has called (behaviours of the other components)
TailUnused ==
    /\ variant = "clawbeam.session_watcher"
    /\ file = <<>>
    /\ unwritten = <<>>
    /\ fh = 0
    /\ buffer = <<>>
    /\ yielded = <<>>
    /\ tail_pc = "new"
    /\ start_pos = 0
    /\ stop_event = FALSE

\* a parse_line nobody has called
ParseUnused ==
    /\ parser = "clawbeam.parser"
    /\ line = [pad |-> FALSE, body |-> [t |-> "empty"]]
    /\ parsed = [result |-> "pending"]

\* a sessions directory nobody looks at
DirUnused ==
    /\ sessions_dir = <<>>
    /\ selected = [called |-> FALSE, path |-> <<>>]
    /\ mtime_clock = 0
    /\ dir_exists = TRUE

\* a watch_sessions nobody has called
WatchUnused ==
    /\ watcher = "clawbeam.session_watcher"
    /\ watch_stop = FALSE
    /\ watch_pc = "new"
    /\ current_path = <<>>
    /\ handle = [open |-> FALSE, path |-> <<>>, pos |-> 0, old |-> 0, owed |-> {}]
    /\ line_buffer = <<>>
    /\ inner_stop = FALSE
    /\ checker = "none"
    /\ emitted = <<>>

RestUnused == ParseUnused /\ DirUnused /\ WatchUnused

\* a state machine nobody uses (behaviours of the other components)
SMUnused ==
    /\ cfg = [min_state_duration |-> 0, idle_timeout |-> 0, debounce_window |-> 0]
    /\ SMConstructed

InitSM ==
    /\ now = 0
    /\ cfg \in StateMachineConfig
    /\ SMConstructed
    /\ WledUnused
    /\ TailUnused
    /\ RestUnused

InitPkg == sys = "pkg" /\ InitSM

NextPkg ==
    \/ \E e \in EventInputs : handle_event("main", e)
    \/ set_network_error("aux")
    \/ clear_network_error("aux")
    \/ \E t \in Tasks : LockGranted(t)
    \/ \E w \in Watchers : idle_watcher(w)
    \/ \E t \in Tasks : ObserverReturns(t)
    \/ \E t \in Callers : ObserverFails(t)
    \/ \E t \in Tasks : ObserverRaises(t)
    \/ \E w \in Watchers : ObserverCancelled(w)
    \/ Tick

SpecPkg == InitPkg /\ [][NextPkg]_vars

--------------------------------------------------------------------------
(* Orchestrator.run (src/clawbeam/main.py): the start of the controller,   *)
(* then the package state machine fed by the run loop.                     *)

\* lines 38-45: the client and the state machine are constructed, the main
\* task is about to apply the initial IDLE effect
InitRun ==
    /\ sys = "pkg"
    /\ now = 0
    /\ cfg \in StateMachineConfig
    /\ SMFieldsConstructed
    /\ task = [t \in Tasks |->
                  IF t = "main" THEN [NoTask EXCEPT !.pc = "startup"] ELSE NoTask]
    /\ WledUnused
    /\ TailUnused
    /\ RestUnused

\* line 48, `await self._apply_effect(LampState.IDLE)`: the call returns
\* True (ok) or False, the value is dropped and run goes on to its loop
initial_apply_effect(ok) ==
    /\ sys = "pkg"
    /\ task["main"].pc = "startup"
    /\ task' = [task EXCEPT !["main"].pc = "idle"]
    /\ fails' = IF ok THEN fails ELSE fails + 1
    /\ UNCHANGED <<ioVars, handled, sys, now, cfg, state, state_entered_at,
                   last_transition_times, idle_task, lock_holder, lock_waiters,
                   calls, observed, fired, outcome, quiet, topVars>>

NextRun ==
    \/ \E ok \in BOOLEAN : initial_apply_effect(ok)
    \/ NextPkg

SpecRun == InitRun /\ [][NextRun]_vars

--------------------------------------------------------------------------
(* The top-level state machine (src/state_machine.py): no lock, one        *)
(* remembered transition key, an idle timer restarted by every event.      *)

HIGH_TOKEN_THRESHOLD == 4000

\* _EVENT_TO_STATE.get(event.event_type): None for UNKNOWN
EVENT_TO_STATE(event_type) ==
    CASE event_type = "USER_INPUT"          -> "USER_INPUT"
      [] event_type = "ASSISTANT"           -> "THINKING"
      [] event_type = "TOOL_CALL"           -> "TOOL_CALL"
      [] event_type = "TOOL_RESULT_SUCCESS" -> "TOOL_SUCCESS"
      [] event_type = "TOOL_RESULT_ERROR"   -> "TOOL_ERROR"
      [] OTHER                              -> None

\* handle_event lines 83-87: the target state of an event
target_of(event) ==
    IF event.token_count # 0 /\ event.token_count >= HIGH_TOKEN_THRESHOLD
    THEN "HIGH_TOKENS"
    ELSE EVENT_TO_STATE(event.event_type)

\* _try_transition line 109
try_TooSoon == now - state_entered_at < cfg.min_state_duration

\* _try_transition lines 113-114: only the most recent key is remembered
try_Debounced(key) ==
    /\ key = last_transition_key
    /\ (now - last_transition_time) < cfg.debounce_window

\* _try_transition lines 109-118: the request passes every early return
try_Admitted(target) ==
    /\ ~try_TooSoon
    /\ ~try_Debounced(<<state, target>>)
    /\ target # state

\* _try_transition lines 109-118: the early return a rejected request takes
try_Rejection(target) ==
    IF try_TooSoon THEN "too_soon"
    ELSE IF try_Debounced(<<state, target>>) THEN "debounced"
    ELSE "same"

\* _restart_idle_timer: cancel the pending watcher (wherever it is suspended)
\* and start a new one
restart_idle_timer(tk) ==
    LET tk1 == IF IdlePending THEN [tk EXCEPT ![idle_task] = NoTask] ELSE tk
        w == FreeWatcher({x \in Watchers : tk1[x].pc # "idle"})
    IN [tk1 EXCEPT ![w] = [NoTask EXCEPT !.pc = "sleep",
                                         !.wake = now + cfg.idle_timeout]]

restarted_idle_task ==
    LET tk1 == IF IdlePending THEN [task EXCEPT ![idle_task] = NoTask] ELSE task
    IN FreeWatcher({x \in Watchers : tk1[x].pc # "idle"})

\* await self._on_transition(old, target): what the observer sees
TopNotify(t, ep, old, target) ==
    /\ observed' = <<old, target, now, ep>>
    /\ outcome' = "committed"
    /\ quiet' = QuietAfter(t, ep, target)
    /\ fired' = [k \in Pairs |->
                    IF k = <<old, target>> THEN now
                    ELSE IF observed # <<>> /\ k = <<observed[1], observed[2]>>
                         THEN fired[k]
                         ELSE NoTime]

\* _try_transition run by task t, whose tasks are tk before the call: a
\* committed transition calls the observer and stays in it, a rejected one
\* returns to the caller.
try_transition(t, ep, target, tk, q) ==
    IF try_Admitted(target)
    THEN /\ state' = target
         /\ state_entered_at' = now
         /\ last_transition_key' = <<state, target>>
         /\ last_transition_time' = now
         /\ task' = [tk EXCEPT ![t].pc = "observer"]
         /\ TopNotify(t, ep, state, target)
    ELSE /\ task' = [tk EXCEPT ![t] = Returned(t)]
         /\ quiet' = q
         /\ outcome' = try_Rejection(target)
         /\ UNCHANGED <<state, state_entered_at, last_transition_key,
                        last_transition_time, observed, fired>>

top_handle_event(t, event) ==
    /\ sys = "top"
    /\ CanCall(t)
    /\ calls' = calls + 1
    /\ fails' = fails
    /\ last_activity' = now
    /\ idle_task' = restarted_idle_task
    /\ IF target_of(event) = None
       THEN /\ task' = restart_idle_timer(task)
            /\ quiet' = "no"
            /\ UNCHANGED <<state, state_entered_at, last_transition_key,
                           last_transition_time, observed, fired, outcome>>
       ELSE try_transition(t, "handle_event", target_of(event),
                           restart_idle_timer(task), "no")
    /\ handled' = [event |-> event, target |-> target_of(event), at |-> now]
    /\ UNCHANGED <<ioVars, sys, now, cfg, pkgVars>>

top_set_network_error(t) ==
    /\ sys = "top"
    /\ CanCall(t)
    /\ calls' = calls + 1
    /\ fails' = fails
    /\ try_transition(t, "set_network_error", "NETWORK_ERROR", task, "no")
    /\ UNCHANGED <<ioVars, handled, sys, now, cfg, idle_task, last_activity, pkgVars>>

top_clear_network_error(t) ==
    /\ sys = "top"
    /\ CanCall(t)
    /\ calls' = calls + 1
    /\ fails' = fails
    /\ IF state = "NETWORK_ERROR"
       THEN try_transition(t, "clear_network_error", "IDLE", task, "no")
       ELSE /\ quiet' = "no"
            /\ UNCHANGED <<state, state_entered_at, last_transition_key,
                           last_transition_time, observed, fired, outcome,
                           task>>
    /\ UNCHANGED <<ioVars, handled, sys, now, cfg, idle_task, last_activity, pkgVars>>

\* _idle_watcher lines 143-146: the sleep is over
top_idle_watcher(w) ==
    /\ sys = "top"
    /\ w \in Watchers
    /\ task[w].pc = "sleep"
    /\ now >= task[w].wake
    /\ IF now - last_activity >= cfg.idle_timeout
       THEN try_transition(w, "_idle_watcher", "IDLE", task, quiet)
       ELSE /\ task' = [task EXCEPT ![w] = NoTask]
            /\ UNCHANGED <<state, state_entered_at, last_transition_key,
                           last_transition_time, observed, fired, outcome,
                           quiet>>
    /\ UNCHANGED <<ioVars, handled, sys, now, cfg, calls, fails, idle_task, last_activity, pkgVars>>

\* the observer returns (or raises: _try_transition lines 129-132 catch it)
top_ObserverReturns(t) ==
    /\ sys = "top"
    /\ task[t].pc = "observer"
    /\ task' = [task EXCEPT ![t] = Returned(t)]
    /\ UNCHANGED <<ioVars, handled, sys, now, cfg, state, state_entered_at, idle_task, calls, fails,
                   observed, fired, outcome, quiet, topVars, pkgVars>>

\* Orchestrator._on_transition lines 77-79 against this machine: apply_state
\* returned False and the observer calls set_network_error(), which runs
\* _try_transition inside the observer.
top_ObserverFails(t) ==
    /\ sys = "top"
    /\ task[t].pc = "observer"
    /\ fails < MaxFails
    /\ fails' = fails + 1
    /\ try_transition(t, "set_network_error", "NETWORK_ERROR", task, "no")
    /\ UNCHANGED <<ioVars, handled, sys, now, cfg, calls, idle_task, last_activity, pkgVars>>

InitTop == sys = "top" /\ InitSM

NextTop ==
    \/ \E e \in EventInputs : top_handle_event("main", e)
    \/ top_set_network_error("main")
    \/ top_clear_network_error("main")
    \/ \E w \in Watchers : top_idle_watcher(w)
    \/ \E t \in Tasks : top_ObserverReturns(t)
    \/ \E t \in Tasks : top_ObserverFails(t)
    \/ Tick

SpecTop == InitTop /\ [][NextTop]_vars

\* both state machine variants
InitBoth == sys \in {"pkg", "top"} /\ InitSM

SpecSM == InitBoth /\ [][NextPkg \/ NextTop]_vars

--------------------------------------------------------------------------
(* Fairness: the event loop runs every task that is ready, timers expire,   *)
(* and a send (hence the observer) ends.  Entry-point calls are the         *)
(* environment's and carry no fairness.                                     *)

FairPkg ==
    /\ WF_vars(Tick)
    /\ \A w \in Watchers : WF_vars(idle_watcher(w))
    /\ \A t \in Tasks : WF_vars(LockGranted(t))
    /\ \A t \in Tasks : WF_vars(ObserverReturns(t))

FairSpecPkg == SpecPkg /\ FairPkg

--------------------------------------------------------------------------
(* Claims about the state machines *)

\* when the current state was entered, as the observer saw it (0: construction)
LastCommitAt == IF observed = <<>> THEN 0 ELSE observed[3]

\* C1: in both StateMachine variants, while less than min_state_duration has
\* elapsed since the current state was entered, no step of any entry point
\* (handle_event, set_network_error, clear_network_error, idle timer) changes
\* the state or calls the observer; so consecutive commits are at least
\* min_state_duration apart.
C1_AntiFlicker ==
    [][(now - LastCommitAt < cfg.min_state_duration)
          => (state' = state /\ observed' = observed)]_vars

\* C1 witness: after a commit under a positive min_state_duration, a request
\* was dropped because it came too soon.
C1_Witness ==
    /\ cfg.min_state_duration > 0
    /\ observed # <<>>
    /\ outcome = "too_soon"
    /\ now - LastCommitAt < cfg.min_state_duration

\* C2: in the package StateMachine, a commit of the pair (A, B) comes at
\* least debounce_window after the previous commit of the same pair, whatever
\* was committed in between.
C2_Debounce ==
    [][observed' # observed =>
          LET k == <<observed'[1], observed'[2]>> IN
          fired[k] = NoTime \/ now - fired[k] >= cfg.debounce_window]_vars

\* C2 witness: a pair that fired within the window was requested again and
\* dropped, with another transition committed in between.
C2_Witness ==
    /\ sys = "pkg"
    /\ cfg.debounce_window > 0
    /\ outcome = "debounced"
    /\ observed # <<>>
    /\ \E k \in Pairs : /\ k[1] = state
                        /\ k # <<observed[1], observed[2]>>
                        /\ fired[k] # NoTime
                        /\ now - fired[k] < cfg.debounce_window

\* C4: a failed send does not block the machine: a task never waits, in the
\* observer's nested set_network_error(), for a lock that it holds itself
\* (such a wait never ends: the entry point does not return, and every later
\* event and the idle timer queue behind it).
C4_EscalationDoesNotBlock ==
    \A t \in Tasks : ~(task[t].pc = "nested" /\ lock_holder = t)

\* C5: in the package StateMachine at most one task is inside the transition
\* routine (from the admission check to the observer's return).
InRoutine == {t \in Tasks : task[t].pc \in {"observer", "nested"}}

C5_Serialized == sys = "pkg" => Cardinality(InRoutine) <= 1

\* C5 witness: one task is inside the routine while another entry point (or
\* the idle timer) waits for the lock.
C5_Witness ==
    /\ sys = "pkg"
    /\ \E t \in Tasks : task[t].pc = "observer"
    /\ \E u \in Tasks : task[u].pc = "lock"

\* C6: clear_network_error() of the package StateMachine commits nothing but
\* NETWORK_ERROR -> IDLE: the observer is never called for a
\* clear_network_error() made in another state.
C6_ClearOnlyFromNetworkError ==
    [][(observed' # observed /\ observed'[4] = "clear_network_error")
          => observed'[1] = "NETWORK_ERROR"]_vars

--------------------------------------------------------------------------
(* C3: the idle timeout of the package StateMachine *)

\* the idle timer of the current state expires within the model's clock
WithinHorizon == state_entered_at + cfg.idle_timeout <= MaxTime

\* the idle timer's request passes the admission policy
TimerAdmitted ==
    /\ cfg.min_state_duration <= cfg.idle_timeout
    /\ cfg.debounce_window <= cfg.idle_timeout

\* while the machine is back in IDLE through the idle timer and nothing has
\* been called since, the idle timer commits nothing more
OnlyOnce ==
    [][(quiet = "returned" /\ observed' # observed)
          => observed'[4] # "_idle_watcher"]_vars

\* C3 as stated, for every configuration with idle_timeout > 0: after a
\* commit of a non-IDLE state, the idle timer returns the machine to IDLE
\* unless an entry point is called first.
C3_AnyConfig ==
    \A p \in {"pending_a", "pending_b"} :
        (sys = "pkg" /\ quiet = p /\ cfg.idle_timeout > 0 /\ WithinHorizon)
            ~> (quiet # p)

\* C3 amended: the same for the configurations in which min_state_duration
\* and debounce_window do not exceed idle_timeout, and the return is
\* committed once.
C3_IdleTimeout ==
    /\ \A p \in {"pending_a", "pending_b"} :
          (sys = "pkg" /\ quiet = p /\ cfg.idle_timeout > 0
             /\ TimerAdmitted /\ WithinHorizon)
            ~> (quiet # p)
    /\ OnlyOnce

\* C3 witness: the idle timer has returned the machine to IDLE, nothing
\* having been called since the commit of the non-IDLE state.
C3_Witness ==
    /\ sys = "pkg"
    /\ quiet = "returned"
    /\ state = "IDLE"
    /\ observed[4] = "_idle_watcher"
    /\ TimerAdmitted
    /\ now >= observed[3]

--------------------------------------------------------------------------
(* The WledClient (src/clawbeam/wled_client.py).  One tick of `now` is one  *)
(* second; asyncio.sleep(d) wakes its task at now >= (time of call) + d.    *)

MaxClock == 6           \* the clock of a client behaviour stops here
MaxPosts == 2           \* apply_state calls in one behaviour

MAX_RETRIES == 3
BACKOFF_BASE == 1

\* 1 / max_requests_per_sec, in seconds
MinIntervals == {1, 2}
HealthCheckIntervals == {1, 3}
WledConfig ==
    [min_interval : MinIntervals, health_check_interval : HealthCheckIntervals]

Payloads == {"effect_a", "effect_b"}
state_url == "/json/state"
info_url == "/json/info"

\* what the device (or the transport) answers to one request
Responses == {"200", "204", "500", "ConnectError"}

\* resp.status_code == 200, a mutant of it first
Is200_Never(r) == FALSE

\* line 114 (POST), line 79 (GET)
Is200(r) == r = "200"

\* the value of _healthy after the last attempt failed, a mutant of it first
exhausted_healthy_Kept == healthy

\* line 127
exhausted_healthy == FALSE

\* elapsed < self._min_interval, a mutant of it first
MustWait_Never == FALSE

\* lines 103-105
MustWait == now - last_request_time < wcfg.min_interval

\* asyncio.Lock.acquire returns without suspending
RateAcquireFast == rate_holder = None /\ rate_waiters = <<>>

\* a release that wakes nobody
Granted_NoWakeUp(tk, q) == tk

\* asyncio.Lock.release: the lock goes to the first waiter, which is woken
Granted(tk, q) ==
    IF q = <<>> THEN tk ELSE [tk EXCEPT ![Head(q)].pc = "rate_granted"]

Request(t, tk) ==
    IF t \in Posters
    THEN [method |-> "POST", url |-> state_url, payload |-> tk[t].payload]
    ELSE [method |-> "GET", url |-> info_url, payload |-> None]

\* line 107, the end of `async with` and the request that follows the
\* return of _rate_limit without a suspension point (lines 113, 78)
LeaveGate(t, tk, q, slept) ==
    /\ last_request_time' = now
    /\ gate' = [prev |-> gate.at, at |-> now, n |-> 1 - gate.n, slept |-> slept]
    /\ rate_holder' = IF q = <<>> THEN None ELSE Head(q)
    /\ rate_waiters' = IF q = <<>> THEN <<>> ELSE Tail(q)
    /\ wire' = <<Request(t, tk), t, now, 1 - gate.n>>
    /\ wtask' = Granted([tk EXCEPT ![t].pc = "request",
                                   ![t].wake = NoTime,
                                   ![t].sent = Append(@, Request(t, tk))], q)

\* lines 103-107, entered with the lock held
InGate(t, tk, q) ==
    IF MustWait
    THEN /\ wtask' = [tk EXCEPT ![t].pc = "rate_sleep",
                                ![t].wake = last_request_time + wcfg.min_interval]
         /\ rate_holder' = t
         /\ rate_waiters' = q
         /\ UNCHANGED <<last_request_time, gate, wire>>
    ELSE LeaveGate(t, tk, q, FALSE)

\* _rate_limit up to its first suspension point
rate_limit(t, tk) ==
    IF RateAcquireFast
    THEN InGate(t, tk, rate_waiters)
    ELSE /\ wtask' = [tk EXCEPT ![t].pc = "rate_lock"]
         /\ rate_waiters' = Append(rate_waiters, t)
         /\ UNCHANGED <<rate_holder, last_request_time, gate, wire>>

\* close() has cancelled the health task and has not released the client yet
Closing == ~closed /\ (wtask["health"].must_cancel \/ wtask["health"].pc = "done")

\* the client is used on its own, or by the controller (Orchestrator.run)
ClientRuns == sys \in {"wled", "pkg"}

\* apply_state -> _post: the first attempt, up to its first suspension point
apply_state(t, payload) ==
    /\ sys = "wled"
    /\ t \in Posters
    /\ wtask[t].pc = "idle"
    /\ ~closed
    /\ ~Closing
    /\ posts < MaxPosts
    /\ posts' = posts + 1
    /\ rate_limit(t, [wtask EXCEPT ![t] = [NoWledTask EXCEPT !.attempt = 1,
                                                      !.payload = payload]])
    /\ UNCHANGED <<sys, now, wcfg, healthy, closed, smVars, pkgVars, topVars,
                   tailVars, restVars>>

\* a task that waited for _rate_lock runs again, now holding it
RateLockGranted(t) ==
    /\ sys = "wled"
    /\ wtask[t].pc = "rate_granted"
    /\ ~wtask[t].must_cancel
    /\ rate_holder = t
    /\ InGate(t, wtask, rate_waiters)
    /\ UNCHANGED <<sys, now, wcfg, healthy, closed, posts, smVars, pkgVars,
                   topVars, tailVars, restVars>>

\* line 106 returns
RateSleepEnds(t) ==
    /\ ClientRuns
    /\ wtask[t].pc = "rate_sleep"
    /\ ~wtask[t].must_cancel
    /\ now >= wtask[t].wake
    /\ LeaveGate(t, wtask, rate_waiters, TRUE)
    /\ UNCHANGED <<sys, now, wcfg, healthy, closed, posts, smVars, pkgVars,
                   topVars, tailVars, restVars>>

\* the last two elements of a sequence
LastTwo(q) == IF Len(q) <= 2 THEN q ELSE SubSeq(q, Len(q) - 1, Len(q))

\* a constant delay
Backoff_Flat(attempt) == BACKOFF_BASE

\* the delay of line 124
Backoff(attempt) == BACKOFF_BASE * 2 ^ (attempt - 1)

\* lines 113-129: the POST is answered (or fails in the transport)
PostAnswered(t, r) ==
    /\ sys = "wled"
    /\ t \in Posters
    /\ wtask[t].pc = "request"
    /\ LET tk == [wtask EXCEPT ![t].answers = Append(@, r)] IN
       IF r # "ConnectError" /\ Is200(r)
       THEN /\ healthy' = TRUE
            /\ wtask' = [tk EXCEPT ![t].pc = "idle", ![t].ret = "True"]
       ELSE IF tk[t].attempt < MAX_RETRIES
       THEN /\ wtask' = [tk EXCEPT ![t].pc = "backoff",
                                   ![t].wake = now + Backoff(tk[t].attempt)]
            /\ UNCHANGED healthy
       ELSE /\ healthy' = exhausted_healthy
            /\ wtask' = [tk EXCEPT ![t].pc = "idle", ![t].ret = "False"]
    /\ UNCHANGED <<sys, now, wcfg, last_request_time, rate_holder, rate_waiters,
                   closed, posts, gate, wire, smVars, pkgVars, topVars,
                   tailVars, restVars>>

\* line 125 returns: the next attempt, up to its first suspension point
BackoffEnds(t) ==
    /\ sys = "wled"
    /\ t \in Posters
    /\ wtask[t].pc = "backoff"
    /\ now >= wtask[t].wake
    /\ rate_limit(t, [wtask EXCEPT ![t].attempt = @ + 1, ![t].wake = NoTime])
    /\ UNCHANGED <<sys, now, wcfg, healthy, closed, posts, smVars, pkgVars,
                   topVars, tailVars, restVars>>

\* lines 86-88 and the loop's first sleep (line 134)
start_health_loop ==
    /\ sys = "wled"
    /\ ~closed
    /\ wtask["health"].pc = "idle"
    /\ wtask' = [wtask EXCEPT !["health"].pc = "interval",
                              !["health"].wake = now + wcfg.health_check_interval]
    /\ UNCHANGED <<sys, now, wcfg, last_request_time, rate_holder, rate_waiters,
                   healthy, closed, posts, gate, wire, smVars, pkgVars, topVars,
                   tailVars, restVars>>

\* line 134 returns: ping, up to its first suspension point
HealthSleepEnds ==
    /\ ClientRuns
    /\ wtask["health"].pc = "interval"
    /\ ~wtask["health"].must_cancel
    /\ now >= wtask["health"].wake
    /\ rate_limit("health", [wtask EXCEPT !["health"].wake = NoTime,
                                          !["health"].sent = <<>>])
    /\ UNCHANGED <<sys, now, wcfg, healthy, closed, posts, smVars, pkgVars,
                   topVars, tailVars, restVars>>

\* a ping that reports to the state machine: a good answer takes it out of
\* NETWORK_ERROR, a bad one puts it there
PingAnswered_Reports(r) ==
    /\ ClientRuns
    /\ wtask["health"].pc = "request"
    /\ ~wtask["health"].must_cancel
    /\ healthy' = (r # "ConnectError" /\ Is200(r))
    /\ state' = IF healthy' THEN (IF state = "NETWORK_ERROR" THEN "IDLE" ELSE state)
                ELSE "NETWORK_ERROR"
    /\ wtask' = [wtask EXCEPT !["health"].pc = "interval",
                              !["health"].wake = now + wcfg.health_check_interval,
                              !["health"].answers = LastTwo(Append(@, r))]
    /\ UNCHANGED <<sys, now, wcfg, last_request_time, rate_holder, rate_waiters,
                   closed, posts, gate, wire, cfg, state_entered_at, idle_task,
                   task, calls, fails, observed, fired, outcome, handled, quiet,
                   pkgVars, topVars, tailVars, restVars>>

\* lines 78-84 and the loop's next sleep
PingAnswered(r) ==
    /\ ClientRuns
    /\ wtask["health"].pc = "request"
    /\ ~wtask["health"].must_cancel
    /\ healthy' = (r # "ConnectError" /\ Is200(r))
    /\ wtask' = [wtask EXCEPT !["health"].pc = "interval",
                              !["health"].wake = now + wcfg.health_check_interval,
                              !["health"].answers = LastTwo(Append(@, r))]
    /\ UNCHANGED <<sys, now, wcfg, last_request_time, rate_holder, rate_waiters,
                   closed, posts, gate, wire, smVars, pkgVars, topVars,
                   tailVars, restVars>>

\* lines 90-97, called at shutdown when no send is in progress.  With no
\* health task (line 92) close goes on to line 98 at once; otherwise it
\* cancels the task and awaits it.
close ==
    /\ sys = "wled"
    /\ ~closed
    /\ ~Closing
    /\ \A t \in Posters : wtask[t].pc = "idle"
    /\ IF wtask["health"].pc = "idle"
       THEN /\ closed' = TRUE
            /\ UNCHANGED wtask
       ELSE /\ wtask' = [wtask EXCEPT !["health"].must_cancel = TRUE]
            /\ UNCHANGED closed
    /\ UNCHANGED <<sys, now, wcfg, last_request_time, rate_holder, rate_waiters,
                   healthy, posts, gate, wire, smVars, pkgVars, topVars,
                   tailVars, restVars>>

\* The CancelledError is raised in the health task at its suspension point
\* (the sleep of line 134, the lock or the sleep of _rate_limit, the GET):
\* `async with` gives up the rate lock or leaves its queue, ping's handler
\* (line 82) does not catch it, _health_loop's does (lines 140-141) and the
\* task ends.
HealthCancelled ==
    /\ sys = "wled"
    /\ wtask["health"].must_cancel
    /\ LET q == Remove(rate_waiters, "health")
           tk == [wtask EXCEPT !["health"].must_cancel = FALSE,
                               !["health"].ret = wtask["health"].pc,
                               !["health"].pc = "done"] IN
       IF rate_holder = "health"
       THEN /\ rate_holder' = IF q = <<>> THEN None ELSE Head(q)
            /\ rate_waiters' = IF q = <<>> THEN <<>> ELSE Tail(q)
            /\ wtask' = Granted(tk, q)
       ELSE /\ rate_waiters' = q
            /\ wtask' = tk
            /\ UNCHANGED rate_holder
    /\ UNCHANGED <<sys, now, wcfg, last_request_time, healthy, closed, posts,
                   gate, wire, smVars, pkgVars, topVars, tailVars, restVars>>

\* `await self._health_task` returns without the task having ended
HealthTerminated_NotAwaited == TRUE

\* lines 94-97: `await self._health_task` returns once the task has ended
HealthTerminated == wtask["health"].pc = "done"

\* line 98, reached when the awaited health task has ended
aclose ==
    /\ sys = "wled"
    /\ Closing
    /\ HealthTerminated
    /\ closed' = TRUE
    /\ UNCHANGED <<sys, now, wcfg, last_request_time, rate_holder, rate_waiters,
                   healthy, wtask, posts, gate, wire, smVars, pkgVars, topVars,
                   tailVars, restVars>>

\* time.monotonic() advances
WledTick ==
    /\ sys = "wled"
    /\ now < MaxClock
    /\ now' = now + 1
    /\ UNCHANGED <<sys, smVars, pkgVars, topVars, ioVars>>

\* the clock's value when the client is constructed
StartTimes == {0, 2}

InitWled ==
    /\ sys = "wled"
    /\ now \in StartTimes
    /\ wcfg \in WledConfig
    /\ WledConstructed
    /\ SMUnused
    /\ TailUnused
    /\ RestUnused

NextWled ==
    \/ \E t \in Posters, p \in Payloads : apply_state(t, p)
    \/ \E t \in WledTasks : RateLockGranted(t)
    \/ \E t \in WledTasks : RateSleepEnds(t)
    \/ \E t \in Posters, r \in Responses : PostAnswered(t, r)
    \/ \E t \in Posters : BackoffEnds(t)
    \/ start_health_loop
    \/ HealthSleepEnds
    \/ \E r \in Responses : PingAnswered(r)
    \/ close
    \/ HealthCancelled
    \/ aclose
    \/ WledTick

SpecWled == InitWled /\ [][NextWled]_vars

--------------------------------------------------------------------------
(* Claims about the WledClient *)

\* the requests and the answers of the poster's current (or last) call
Sent(t) == wtask[t].sent
Answers(t) == wtask[t].answers

\* C7 (retry): within one apply_state call the attempts follow one another
\* (a request is sent only when every earlier one has been answered), there
\* are never more than MAX_RETRIES = 3 of them, every one is a POST of the
\* call's unchanged payload to the state endpoint, an answer of 200 is the
\* last answer of the call and makes it return True with no further request,
\* so that k < 3 failures followed by a success are exactly k + 1 requests.
C7_Retry ==
    \A t \in Posters :
        /\ Len(Sent(t)) <= MAX_RETRIES
        /\ Len(Sent(t)) - Len(Answers(t)) \in {0, 1}
        /\ (wtask[t].pc = "request") = (Len(Sent(t)) = Len(Answers(t)) + 1)
        /\ \A i \in 1..Len(Sent(t)) :
               Sent(t)[i] = [method |-> "POST", url |-> state_url,
                             payload |-> wtask[t].payload]
        /\ \A i \in 1..Len(Answers(t)) :
               Answers(t)[i] = "200" =>
                   /\ i = Len(Answers(t))
                   /\ Len(Sent(t)) = i
                   /\ wtask[t].pc = "idle"
                   /\ wtask[t].ret = "True"
        /\ wtask[t].ret = "True" =>
               /\ Answers(t) # <<>>
               /\ Answers(t)[Len(Answers(t))] = "200"
               /\ Len(Sent(t)) = Len(Answers(t))

\* two failing attempts, then a success: three requests, True
C7_Witness ==
    \E t \in Posters :
        /\ wtask[t].ret = "True"
        /\ Len(Sent(t)) = 3
        /\ Answers(t)[1] # "200" /\ Answers(t)[2] # "200" /\ Answers(t)[3] = "200"

\* C8 (exhaustion): an apply_state call returns False exactly when its three
\* attempts all failed, and the healthy flag is then False as it returns; it
\* returns True, with healthy True, when fewer than three failures were
\* followed by a success; it does not return in any other situation.
C8_Exhaustion ==
    [][\A t \in Posters :
          (wtask[t].pc = "request" /\ wtask'[t].pc = "idle") =>
              LET a == wtask'[t].answers IN
              IF \A i \in 1..Len(a) : a[i] # "200"
              THEN Len(a) = MAX_RETRIES /\ wtask'[t].ret = "False" /\ healthy' = FALSE
              ELSE Len(a) <= MAX_RETRIES /\ wtask'[t].ret = "True" /\ healthy' = TRUE]_vars

\* three failures of both kinds, False returned, the client unhealthy
C8_Witness ==
    \E t \in Posters :
        /\ wtask[t].pc = "idle"
        /\ wtask[t].ret = "False"
        /\ Len(Answers(t)) = 3
        /\ \E i, j \in 1..3 : Answers(t)[i] = "500" /\ Answers(t)[j] = "ConnectError"
        /\ ~healthy

InGateNow(t) == wtask[t].pc \in {"rate_lock", "rate_granted", "rate_sleep"}

\* C9 (rate limiting): two consecutive exits from the rate gate are at least
\* min_interval = 1 / max_requests_per_sec apart; every request handed to the
\* HTTP client (each POST attempt, each health GET) leaves the gate in the
\* same step; and a task in the gate stays there or leaves it with its
\* request (it is not dropped), the health task alone being removed by close.
C9_RateLimit ==
    [][/\ gate' # gate =>
              (gate.at = NoTime \/ gate'.at - gate.at >= wcfg.min_interval)
       /\ wire' # wire => (gate' # gate /\ gate'.at = now)
       /\ \A t \in WledTasks :
              InGateNow(t) =>
                  \/ InGateNow(t)'
                  \/ wtask'[t].pc = "request" /\ wire'[2] = t /\ wire' # wire
                  \/ t = "health" /\ wtask[t].must_cancel]_vars

\* a retry's POST was held back in the gate until min_interval after the
\* previous exit, then sent
C9_Witness ==
    /\ gate.prev # NoTime
    /\ gate.slept
    /\ gate.at - gate.prev = wcfg.min_interval
    /\ wire # <<>> /\ wire[1].method = "POST" /\ wire[3] = gate.at
    /\ wtask["post"].attempt > 1
    /\ wtask["post"].pc = "request"

--------------------------------------------------------------------------
(* tail_file (src/clawbeam/session_watcher.py, src/session_watcher.py).     *)
(* The file is a sequence of bytes of UTF-8 text: "a" is an ASCII letter,   *)
(* "C3" "A9" the two bytes of one non-ASCII character, "LF" the newline.    *)
(* The writer appends a well-formed text in pieces of any size.             *)

MaxUnits == 4           \* characters the writer appends in one behaviour

Units == {<<"a">>, <<"C3", "A9">>, <<"LF">>}

RECURSIVE TextsOf(_)
TextsOf(n) ==
    IF n = 0 THEN {<<>>}
    ELSE LET shorter == TextsOf(n - 1) IN
         shorter \cup {t \o u : t \in shorter, u \in Units}

\* what the file holds when tail_file is called
OldContents == {<<>>, <<"a", "LF">>, <<"a">>}

TailVariants == {"clawbeam.session_watcher", "session_watcher"}

\* bytes.decode("utf-8") of everything read, as TextIOWrapper.read() does it
\* (final = True): a multi-byte character cut off by the end of the data
\* is an error, not input kept for later
RECURSIVE Decodable(_)
Decodable(b) ==
    IF b = <<>> THEN TRUE
    ELSE IF b[1] = "C3"
         THEN Len(b) >= 2 /\ b[2] = "A9" /\ Decodable(SubSeq(b, 3, Len(b)))
    ELSE IF b[1] = "A9" THEN FALSE
    ELSE Decodable(Tail(b))

RECURSIVE utf8_decode(_)
utf8_decode(b) ==
    IF b = <<>> THEN <<>>
    ELSE IF b[1] = "C3" THEN <<"e_acute">> \o utf8_decode(SubSeq(b, 3, Len(b)))
    ELSE IF b[1] = "LF" THEN <<"\n">> \o utf8_decode(Tail(b))
    ELSE <<b[1]>> \o utf8_decode(Tail(b))

\* str.find("\n"): the 0-based index of the first newline, or -1
RECURSIVE find_from(_, _)
find_from(buf, i) ==
    IF i >= Len(buf) THEN -1
    ELSE IF buf[i + 1] = "\n" THEN i
    ELSE find_from(buf, i + 1)

\* package lines 37-41: <<line, rest>> by find and slices
find_and_slice(buf) ==
    LET idx == find_from(buf, 0) IN
    <<SubSeq(buf, 1, idx), SubSeq(buf, idx + 2, Len(buf))>>

\* top-level line 54: buffer.split("\n", 1)
RECURSIVE split_once(_, _)
split_once(head, rest) ==
    IF rest[1] = "\n" THEN <<head, Tail(rest)>>
    ELSE split_once(Append(head, rest[1]), Tail(rest))

\* package line 38 (idx == -1), top-level line 53 ("\n" in buffer)
HasLine(buf) ==
    IF variant = "clawbeam.session_watcher"
    THEN find_from(buf, 0) # -1
    ELSE \E i \in 1..Len(buf) : buf[i] = "\n"

NextLine(buf) ==
    IF variant = "clawbeam.session_watcher"
    THEN find_and_slice(buf)
    ELSE split_once(<<>>, buf)

\* the inner loop with a line in the buffer: `yield line`
yield_line(pos, buf) ==
    /\ yielded' = Append(yielded, NextLine(buf)[1])
    /\ buffer' = NextLine(buf)[2]
    /\ fh' = pos
    /\ tail_pc' = "yield"

\* the outer loop from its stop test to the next suspension point
outer_loop(pos, buf) ==
    IF stop_event
    THEN /\ tail_pc' = "done"
         /\ fh' = pos
         /\ UNCHANGED <<buffer, yielded>>
    ELSE LET chunk == SubSeq(file, pos + 1, Len(file)) IN
         IF chunk = <<>>
         THEN /\ tail_pc' = "sleep"
              /\ fh' = pos
              /\ UNCHANGED <<buffer, yielded>>
         ELSE IF ~Decodable(chunk)
         THEN /\ tail_pc' = "UnicodeDecodeError"
              /\ fh' = Len(file)
              /\ UNCHANGED <<buffer, yielded>>
         ELSE IF HasLine(buf \o utf8_decode(chunk))
         THEN yield_line(Len(file), buf \o utf8_decode(chunk))
         ELSE /\ tail_pc' = "sleep"
              /\ fh' = Len(file)
              /\ buffer' = buf \o utf8_decode(chunk)
              /\ UNCHANGED yielded

\* the consumer asks for the first line: open, seek to the end, first read
tail_file ==
    /\ sys = "tail"
    /\ tail_pc = "new"
    /\ start_pos' = Len(file)
    /\ outer_loop(Len(file), <<>>)
    /\ UNCHANGED <<variant, file, unwritten, stop_event>>
    /\ UNCHANGED <<sys, now, smVars, pkgVars, topVars, wledVars, restVars>>

\* asyncio.sleep(poll_interval) returns
PollSleepEnds ==
    /\ sys = "tail"
    /\ tail_pc = "sleep"
    /\ outer_loop(fh, buffer)
    /\ UNCHANGED <<variant, file, unwritten, start_pos, stop_event>>
    /\ UNCHANGED <<sys, now, smVars, pkgVars, topVars, wledVars, restVars>>

\* the consumer asks for the next line: the inner loop goes on
NextRequested ==
    /\ sys = "tail"
    /\ tail_pc = "yield"
    /\ IF HasLine(buffer) THEN yield_line(fh, buffer) ELSE outer_loop(fh, buffer)
    /\ UNCHANGED <<variant, file, unwritten, start_pos, stop_event>>
    /\ UNCHANGED <<sys, now, smVars, pkgVars, topVars, wledVars, restVars>>

\* the writer appends the next n bytes of its text
Append_bytes(n) ==
    /\ sys = "tail"
    /\ n \in 1..Len(unwritten)
    /\ file' = file \o SubSeq(unwritten, 1, n)
    /\ unwritten' = SubSeq(unwritten, n + 1, Len(unwritten))
    /\ UNCHANGED <<variant, fh, buffer, yielded, tail_pc, start_pos, stop_event>>
    /\ UNCHANGED <<sys, now, smVars, pkgVars, topVars, wledVars, restVars>>

\* stop_event.set()
set_stop ==
    /\ sys = "tail"
    /\ ~stop_event
    /\ stop_event' = TRUE
    /\ UNCHANGED <<variant, file, unwritten, fh, buffer, yielded, tail_pc,
                   start_pos>>
    /\ UNCHANGED <<sys, now, smVars, pkgVars, topVars, wledVars, restVars>>

InitTail ==
    /\ sys = "tail"
    /\ now = 0
    /\ variant \in TailVariants
    /\ file \in OldContents
    /\ unwritten \in TextsOf(MaxUnits)
    /\ fh = 0
    /\ buffer = <<>>
    /\ yielded = <<>>
    /\ tail_pc = "new"
    /\ start_pos = 0
    /\ stop_event = FALSE
    /\ SMUnused
    /\ WledUnused
    /\ RestUnused

NextTail ==
    \/ tail_file
    \/ PollSleepEnds
    \/ NextRequested
    \/ \E n \in 1..(2 * MaxUnits) : Append_bytes(n)
    \/ set_stop

SpecTail == InitTail /\ [][NextTail]_vars

--------------------------------------------------------------------------
(* Claims about tail_file *)

\* the bytes appended since tail_file seeked to the end of the file
Appended == SubSeq(file, start_pos + 1, Len(file))

\* the newline-terminated lines of a byte sequence, decoded, without newline
RECURSIVE LinesOf(_, _)
LinesOf(part, b) ==
    IF b = <<>> THEN <<>>
    ELSE IF b[1] = "LF" THEN <<utf8_decode(part)>> \o LinesOf(<<>>, Tail(b))
    ELSE LinesOf(Append(part, b[1]), Tail(b))

IsPrefix(s, t) == Len(s) <= Len(t) /\ s = SubSeq(t, 1, Len(s))

\* C10: tail_file ends only when it is stopped; what it has yielded is
\* always a prefix of the newline-terminated lines appended since it
\* started, in append order, each once, without the newline; and when it
\* sleeps having read the whole file it has yielded all of them (the bytes
\* after the last newline are held back).
C10_TailExact ==
    tail_pc # "new" =>
        /\ tail_pc # "UnicodeDecodeError"
        /\ IsPrefix(yielded, LinesOf(<<>>, Appended))
        /\ (tail_pc = "sleep" /\ fh = Len(file)) =>
               yielded = LinesOf(<<>>, Appended)

--------------------------------------------------------------------------
(* Claims about events and notifications *)

ByHandleEvent == observed' # observed /\ observed'[4] = "handle_event"

\* C18 (high-token override, package StateMachine): handle_event of an event
\* whose token_count is at least the threshold (4000) asks for HIGH_TOKENS
\* whatever the event's kind, so that the transition such an event commits
\* leads to HIGH_TOKENS (USER_INPUT -> HIGH_TOKENS, never -> THINKING).
C18_HighTokenOverride ==
    [][/\ (handled' # handled
              /\ handled'.event.token_count >= HIGH_TOKEN_THRESHOLD)
           => handled'.target = "HIGH_TOKENS"
       /\ (ByHandleEvent
              /\ handled'.event.token_count >= HIGH_TOKEN_THRESHOLD)
           => observed'[2] = "HIGH_TOKENS"]_vars

\* C19 (UNKNOWN events, package StateMachine): handle_event of an event of
\* kind UNKNOWN asks for no transition; no commit and no observer call is
\* ever made for such an event, whatever the state.
C19_UnknownNoAttempt ==
    [][/\ (handled' # handled /\ handled'.event.event_type = "UNKNOWN")
           => (state' = state /\ observed' = observed)
       /\ ByHandleEvent => handled'.event.event_type # "UNKNOWN"]_vars

\* C20 (notification discipline, both variants): a step calls the observer
\* exactly when it commits a transition, and calls it once, with the state
\* before the commit as old and the state after it as new, old # new; a
\* request rejected by min-duration or debounce, or whose target is the
\* current state, changes nothing and makes no call.
C20_NotificationDiscipline ==
    [][/\ (state' # state) <=> (observed' # observed)
       /\ observed' # observed =>
              /\ observed'[1] = state
              /\ observed'[2] = state'
              /\ observed'[1] # observed'[2]
              /\ outcome' = "committed"
       /\ (outcome' # outcome /\ outcome' \in {"same", "too_soon", "debounced"})
              => (state' = state /\ observed' = observed)]_vars

\* a commit was notified, and later requests were rejected in each of the
\* three ways without a further call
C20_Witness ==
    /\ observed # <<>>
    /\ observed[2] = state
    /\ outcome = "same"
    /\ now > observed[3]
    /\ calls = MaxCalls

--------------------------------------------------------------------------
(* Strings.  A Python str is a sequence of one-character strings.           *)

UpperCase == <<"A", "B", "C", "D", "E", "F", "G", "H", "I", "J", "K", "L", "M",
               "N", "O", "P", "Q", "R", "S", "T", "U", "V", "W", "X", "Y", "Z">>
LowerCase == <<"a", "b", "c", "d", "e", "f", "g", "h", "i", "j", "k", "l", "m",
               "n", "o", "p", "q", "r", "s", "t", "u", "v", "w", "x", "y", "z">>

lower_char(c) ==
    IF \E i \in 1..Len(UpperCase) : UpperCase[i] = c
    THEN LowerCase[CHOOSE i \in 1..Len(UpperCase) : UpperCase[i] = c]
    ELSE c

\* str.lower()
lower(s) == [i \in 1..Len(s) |-> lower_char(s[i])]

\* str.startswith(prefix), str.endswith(suffix), `sub in s`
startswith(s, prefix) ==
    Len(s) >= Len(prefix) /\ SubSeq(s, 1, Len(prefix)) = prefix
endswith(s, suffix) ==
    Len(s) >= Len(suffix)
        /\ SubSeq(s, Len(s) - Len(suffix) + 1, Len(s)) = suffix
contains(s, sub) ==
    \E i \in 0..(Len(s) - Len(sub)) : SubSeq(s, i + 1, i + Len(sub)) = sub

\* the string literals of the two parsers
s_user == <<"u", "s", "e", "r">>
s_assistant == <<"a", "s", "s", "i", "s", "t", "a", "n", "t">>
s_tool_call == <<"t", "o", "o", "l", "_", "c", "a", "l", "l">>
s_toolcall == <<"t", "o", "o", "l", "c", "a", "l", "l">>
s_tool_result == <<"t", "o", "o", "l", "_", "r", "e", "s", "u", "l", "t">>
s_toolresult == <<"t", "o", "o", "l", "r", "e", "s", "u", "l", "t">>
s_error == <<"e", "r", "r", "o", "r">>
s_exception == <<"e", "x", "c", "e", "p", "t", "i", "o", "n">>
s_traceback == <<"t", "r", "a", "c", "e", "b", "a", "c", "k">>
s_failed == <<"f", "a", "i", "l", "e", "d">>

\* further strings that occur in the input lines of the model
s_Tool_Result == <<"T", "o", "o", "l", "_", "R", "e", "s", "u", "l", "t">>
s_toolResult == <<"t", "o", "o", "l", "R", "e", "s", "u", "l", "t">>
s_system == <<"s", "y", "s", "t", "e", "m">>
s_Error_x == <<"E", "r", "r", "o", "r", ":", " ", "x">>
s_ERROR == <<"E", "R", "R", "O", "R">>
s_ok_done == <<"o", "k", " ", "d", "o", "n", "e">>
s_it_failed == <<"i", "t", " ", "f", "a", "i", "l", "e", "d">>
s_no_errors == <<"n", "o", " ", "e", "r", "r", "o", "r", "s">>
s_hi == <<"h", "i">>

--------------------------------------------------------------------------
(* parse_line (src/clawbeam/parser.py, src/parser.py).  A line is its text  *)
(* without surrounding whitespace (body) and whether it has any (pad); the  *)
(* body is empty, not JSON, or a JSON value, written as json.loads gives it. *)

JAbsent == [t |-> "absent"]
JNull == [t |-> "null"]
JTrue == [t |-> "bool", v |-> TRUE]
JNum(n) == [t |-> "number", v |-> n]
JStr(str) == [t |-> "string", v |-> str]
JArr(n) == [t |-> "array", n |-> n]             \* a list of n items
JObj(fields) == [t |-> "object", f |-> fields]  \* a dict: key -> value

\* dict.get(key, default)
Get(d, key, default) ==
    IF key \in DOMAIN d.f /\ d.f[key].t # "absent" THEN d.f[key] ELSE default

\* bool(value)
Truthy(v) ==
    CASE v.t = "null"   -> FALSE
      [] v.t = "bool"   -> v.v
      [] v.t = "number" -> v.v # 0
      [] v.t = "string" -> v.v # <<>>
      [] v.t = "array"  -> v.n > 0
      [] v.t = "object" -> \E k \in DOMAIN v.f : v.f[k].t # "absent"

\* value == "literal"
IsStr(v, str) == v.t = "string" /\ v.v = str

\* what a call of parse_line does
ReturnsNone == [result |-> "None"]
Raises(exc) == [result |-> "raises", exc |-> exc]
Event(event_type, severity) ==
    [result |-> "Event", event_type |-> event_type, severity |-> severity]

\* the package's error heuristic, a heuristic that never matches first
pkg_is_error_Never(content) == FALSE

\* _map_type line 53
pkg_is_error(content) ==
    content.t = "string" /\ startswith(lower(content.v), s_error)

\* _map_type (package lines 40-57)
map_type(type_str, message) ==
    IF ~Truthy(type_str) THEN Event("UNKNOWN", "INFO")
    ELSE IF IsStr(type_str, s_user) THEN Event("USER_INPUT", "INFO")
    ELSE IF IsStr(type_str, s_assistant) THEN Event("ASSISTANT", "INFO")
    ELSE IF IsStr(type_str, s_tool_call) THEN Event("TOOL_CALL", "INFO")
    ELSE IF IsStr(type_str, s_tool_result)
    THEN LET m == IF Truthy(message) THEN message ELSE JObj(<<>>) IN
         IF m.t # "object" THEN Raises("AttributeError")
         ELSE IF pkg_is_error(Get(m, "content", JStr(<<>>)))
         THEN Event("TOOL_RESULT_ERROR", "ERROR")
         ELSE Event("TOOL_RESULT_SUCCESS", "INFO")
    ELSE Event("UNKNOWN", "INFO")

\* parse_line of the package (lines 60-104).  The timestamp, token-count and
\* id steps that follow _map_type are each guarded (try/except Exception,
\* isinstance) and leave the kind and the severity as _map_type gave them.
pkg_parse_line(l) ==
    IF l.body.t = "empty" THEN ReturnsNone
    ELSE IF l.body.t = "garbage" THEN ReturnsNone
    ELSE LET obj == l.body IN
         IF obj.t # "object" THEN Raises("AttributeError")
         ELSE LET type_str == Get(obj, "type", JNull)
                  m0 == Get(obj, "message", JObj(<<>>))
                  message == IF Truthy(m0) THEN m0 ELSE JObj(<<>>)
              IN map_type(type_str, message)

\* _detect_error (top level lines 42-49), reached with a dict message
detect_error(msg) ==
    LET content == Get(msg, "content", JStr(<<>>)) IN
    /\ content.t = "string"
    /\ \E kw \in {s_error, s_exception, s_traceback, s_failed} :
           contains(lower(content.v), kw)

\* parse_line of the top level (lines 52-109); what follows the kind (token
\* count, timestamp) is guarded and leaves kind and severity alone.
top_parse_line(l) ==
    IF l.body.t = "empty" THEN ReturnsNone
    ELSE IF l.body.t = "garbage" THEN ReturnsNone
    ELSE LET data == l.body IN
         IF data.t # "object" THEN Raises("AttributeError")
         ELSE LET msg == Get(data, "message", JObj(<<>>)) IN
         IF msg.t # "object" THEN Raises("AttributeError")
         ELSE LET r == Get(msg, "role", JStr(<<>>)) IN
         IF r.t # "string" THEN Raises("AttributeError")
         ELSE LET ty == Get(data, "type", JStr(<<>>)) IN
         IF ty.t # "string" THEN Raises("AttributeError")
         ELSE LET role == lower(r.v)
                  record_type == lower(ty.v)
              IN IF role = s_user \/ record_type = s_user
                 THEN Event("USER_INPUT", "INFO")
                 ELSE IF record_type \in {s_tool_call, s_toolcall} \/ role = s_toolcall
                 THEN Event("TOOL_CALL", "INFO")
                 ELSE IF record_type \in {s_tool_result, s_toolresult}
                         \/ role = s_toolresult
                 THEN (IF detect_error(msg)
                       THEN Event("TOOL_RESULT_ERROR", "ERROR")
                       ELSE Event("TOOL_RESULT_SUCCESS", "INFO"))
                 ELSE IF role = s_assistant \/ record_type = s_assistant
                 THEN Event("ASSISTANT", "INFO")
                 ELSE Event("UNKNOWN", "INFO")

\* The lines the model hands to parse_line
NonObjects == {JArr(0), JArr(1), JNum(42), JStr(s_hi), JNull, JTrue}
TypeFields ==
    {JAbsent, JNull, JNum(7), JStr(s_user), JStr(s_assistant), JStr(s_tool_call),
     JStr(s_tool_result), JStr(s_Tool_Result), JStr(s_system)}
ContentFields ==
    {JAbsent, JNum(5), JStr(s_Error_x), JStr(s_ERROR), JStr(s_ok_done),
     JStr(s_it_failed), JStr(s_no_errors)}
RoleFields == {JAbsent, JNum(5), JStr(s_toolResult), JStr(s_user)}
MessageFields ==
    {JAbsent, JNull, JStr(s_hi), JArr(1), JNum(5)}
        \cup {JObj([role |-> r, content |-> c]) : r \in RoleFields,
                                                  c \in ContentFields}
Objects ==
    {JObj([type |-> ty, message |-> m]) : ty \in TypeFields, m \in MessageFields}
Bodies == {[t |-> "empty"], [t |-> "garbage"]} \cup NonObjects \cup Objects
Lines == [pad : BOOLEAN, body : Bodies]

Parsers == {"clawbeam.parser", "parser"}

\* one call of parse_line(line)
parse_line ==
    /\ sys = "parse"
    /\ parsed.result = "pending"
    /\ parsed' = IF parser = "clawbeam.parser"
                 THEN pkg_parse_line(line)
                 ELSE top_parse_line(line)
    /\ UNCHANGED <<parser, line, dirVars, watchVars>>
    /\ UNCHANGED <<sys, now, smVars, pkgVars, topVars, wledVars, tailVars>>

InitParse ==
    /\ sys = "parse"
    /\ now = 0
    /\ parser \in Parsers
    /\ line \in Lines
    /\ parsed = [result |-> "pending"]
    /\ DirUnused
    /\ WatchUnused
    /\ SMUnused
    /\ WledUnused
    /\ TailUnused

NextParse == parse_line

SpecParse == InitParse /\ [][NextParse]_vars

--------------------------------------------------------------------------
(* Claims about parse_line *)

\* the line is empty or whitespace only, is not JSON, is JSON but not an
\* object, or is an object whose message field is present and not an object
Malformed(l) ==
    \/ l.body.t \in {"empty", "garbage"}
    \/ l.body.t # "object"
    \/ l.body.f.message.t \notin {"absent", "object"}

\* C16 (classifier totality): for every malformed line (empty, whitespace
\* only, not JSON, a JSON array, number, string or null, an object with a
\* non-object message) parse_line returns None; it never raises.
C16_Totality ==
    (parsed.result # "pending" /\ Malformed(line)) => parsed = ReturnsNone

\* a tool-result record: type "tool_result", an object as message, whose role
\* (when given) says tool result as well
ValidToolResult(l) ==
    /\ l.body.t = "object"
    /\ IsStr(l.body.f.type, s_tool_result)
    /\ l.body.f.message.t = "object"
    /\ \/ l.body.f.message.f.role.t = "absent"
       \/ IsStr(l.body.f.message.f.role, s_toolResult)

\* the error heuristic of each variant (spec 4.1): a leading "error" in the
\* package, one of four keywords anywhere in the top-level parser, both
\* case-insensitive and only for a message content that is a string
MatchesHeuristic(l) ==
    LET c == l.body.f.message.f.content IN
    /\ c.t = "string"
    /\ IF parser = "clawbeam.parser"
       THEN Len(c.v) >= 5 /\ lower(SubSeq(c.v, 1, 5)) = s_error
       ELSE \E i \in 1..Len(c.v), kw \in {s_error, s_exception, s_traceback, s_failed} :
                i + Len(kw) - 1 <= Len(c.v)
                    /\ lower(SubSeq(c.v, i, i + Len(kw) - 1)) = kw

\* C17 (tool-result classification): a valid tool-result record whose content
\* matches the variant's error heuristic becomes TOOL_RESULT_ERROR with
\* severity ERROR, any other valid tool-result record TOOL_RESULT_SUCCESS
\* with severity INFO; and for every line that becomes an Event, severity
\* is ERROR exactly when the kind is TOOL_RESULT_ERROR.
C17_ToolResult ==
    parsed.result # "pending" =>
        /\ ValidToolResult(line) =>
               parsed = IF MatchesHeuristic(line)
                        THEN Event("TOOL_RESULT_ERROR", "ERROR")
                        ELSE Event("TOOL_RESULT_SUCCESS", "INFO")
        /\ parsed.result = "Event" =>
               ((parsed.severity = "ERROR") <=> (parsed.event_type = "TOOL_RESULT_ERROR"))

\* "it failed": an error for the top-level parser
C17_Witness ==
    /\ parser = "parser"
    /\ ValidToolResult(line)
    /\ line.body.f.message.f.content = JStr(s_it_failed)
    /\ parsed = Event("TOOL_RESULT_ERROR", "ERROR")

--------------------------------------------------------------------------
(* _latest_session (src/clawbeam/session_watcher.py 45-56,                  *)
(* src/session_watcher.py 16-25).  A directory is a function from file      *)
(* names to [mtime, content]; a path is the file's name, NoPath is None.    *)

MaxMtime == 3

NoPath == <<>>

s_dot_jsonl == <<".", "j", "s", "o", "n", "l">>
s_dash_reset == <<"-", "r", "e", "s", "e", "t">>
s_reset == <<"r", "e", "s", "e", "t">>

\* the file names of the model
n_a == <<"a">> \o s_dot_jsonl
n_b == <<"b">> \o s_dot_jsonl
n_a_reset == <<"a">> \o s_dash_reset \o s_dot_jsonl
n_b_RESET == <<"b", "-", "R", "E", "S", "E", "T">> \o s_dot_jsonl
n_preset == <<"p">> \o s_reset \o s_dot_jsonl
n_a_txt == <<"a", ".", "t", "x", "t">>
Names == {n_a, n_b, n_a_reset, n_b_RESET, n_preset, n_a_txt}

WatchVariants == {"clawbeam.session_watcher", "session_watcher"}

\* sessions_dir.glob("*.jsonl")
glob_jsonl(dir) == {p \in DOMAIN dir : endswith(p, s_dot_jsonl)}

\* Path.stem of a *.jsonl path
stem(p) == SubSeq(p, 1, Len(p) - Len(s_dot_jsonl))

\* the files each variant keeps
pkg_candidates(dir) == {p \in glob_jsonl(dir) : ~contains(p, s_dash_reset)}
top_candidates(dir) == {p \in glob_jsonl(dir) : ~contains(lower(stem(p)), s_reset)}

\* any of the files: not the newest only
Newest_Any(files, dir) == files

\* files.sort(key=mtime); files[-1]  /  max(candidates, key=mtime): a file
\* with the greatest mtime; among equal mtimes the order glob() lists them
\* in decides, which the file system chooses
Newest(files, dir) ==
    {p \in files : \A q \in files : dir[q].mtime <= dir[p].mtime}

\* the values a call of _latest_session(dir) can return
latest_session(w, dir) ==
    LET files == IF w = "clawbeam.session_watcher"
                 THEN pkg_candidates(dir)
                 ELSE top_candidates(dir)
    IN IF files = {} THEN {NoPath} ELSE Newest(files, dir)

Dirs ==
    UNION {[S -> [mtime : 1..MaxMtime, content : {<<>>}]] : S \in SUBSET Names}

\* one call of _latest_session(sessions_dir)
call_latest_session ==
    /\ sys = "latest"
    /\ ~selected.called
    /\ \E p \in latest_session(watcher, sessions_dir) :
           selected' = [called |-> TRUE, path |-> p]
    /\ UNCHANGED <<sessions_dir, mtime_clock, dir_exists, parseVars, watchVars>>
    /\ UNCHANGED <<sys, now, smVars, pkgVars, topVars, wledVars, tailVars>>

InitLatest ==
    /\ sys = "latest"
    /\ now = 0
    /\ sessions_dir \in Dirs
    /\ selected = [called |-> FALSE, path |-> NoPath]
    /\ mtime_clock = MaxMtime
    /\ dir_exists = TRUE
    /\ watcher \in WatchVariants
    /\ watch_stop = FALSE
    /\ watch_pc = "new"
    /\ current_path = NoPath
    /\ handle = [open |-> FALSE, path |-> <<>>, pos |-> 0, old |-> 0, owed |-> {}]
    /\ line_buffer = <<>>
    /\ inner_stop = FALSE
    /\ checker = "none"
    /\ emitted = <<>>
    /\ ParseUnused
    /\ SMUnused
    /\ WledUnused
    /\ TailUnused

NextLatest == call_latest_session

SpecLatest == InitLatest /\ [][NextLatest]_vars

--------------------------------------------------------------------------
(* Claims about _latest_session *)

\* the reset marker of each variant: "-reset" in the file name (package),
\* "reset" in any case in the name before the suffix (top level)
ResetMarked(p) ==
    IF watcher = "clawbeam.session_watcher"
    THEN \E i \in 1..Len(p) :
             i + 5 <= Len(p) /\ SubSeq(p, i, i + 5) = s_dash_reset
    ELSE \E i \in 1..(Len(p) - 6) :
             i + 4 <= Len(p) - 6 /\ lower(SubSeq(p, i, i + 4)) = s_reset

IsJsonl(p) == Len(p) >= 6 /\ SubSeq(p, Len(p) - 5, Len(p)) = s_dot_jsonl

Eligible == {p \in DOMAIN sessions_dir : IsJsonl(p) /\ ~ResetMarked(p)}

--------------------------------------------------------------------------
(* watch_sessions (src/clawbeam/session_watcher.py 59-91,                   *)
(* src/session_watcher.py 60-121).  The content of a file is a sequence of  *)
(* units: NL is "\n", the line with number k is the text <<k, -k>>, so      *)
(* that a line can be written in two parts and every unit is found again.   *)
(* handle is the open file: its path, the read position, and two records    *)
(* kept for the claims: old is the length of the file when it was opened,   *)
(* owed the numbers of the lines appended in full since then.               *)

MaxWrites == 3
InitClock == 2

NL == 0
WatchNames == {n_a, n_b}

TextOf(k) == <<k, 0 - k>>
File(mtime, content) == [mtime |-> mtime, content |-> content]
NoHandle == [open |-> FALSE, path |-> NoPath, pos |-> 0, old |-> 0, owed |-> {}]
Emission(path, text) == [path |-> path, text |-> text]

\* the directory when watch_sessions is called: empty, one session file
\* with a line in it, or two of them
InitDirs ==
    {<<>>,
     (n_a :> File(1, TextOf(1) \o <<NL>>)),
     (n_a :> File(1, TextOf(1) \o <<NL>>)) @@ (n_b :> File(2, TextOf(2) \o <<NL>>)),
     (n_a :> File(2, TextOf(2) \o <<NL>>)) @@ (n_b :> File(1, TextOf(1) \o <<NL>>))}

content_of(path) == sessions_dir[path].content

\* a write to the file (created when it does not exist) at the next mtime
Written(path, units) ==
    LET before == IF path \in DOMAIN sessions_dir THEN content_of(path) ELSE <<>>
    IN (path :> File(mtime_clock + 1, before \o units)) @@ sessions_dir

EndsInPart(path) ==
    /\ path \in DOMAIN sessions_dir
    /\ content_of(path) # <<>>
    /\ content_of(path)[Len(content_of(path))] > NL

Active(path) == handle.open /\ handle.path = path

\* the session writer appends a whole line
Write_line ==
    /\ sys = "watch"
    /\ mtime_clock < InitClock + MaxWrites
    /\ dir_exists
    /\ \E path \in WatchNames :
        /\ ~EndsInPart(path)
        /\ sessions_dir' = Written(path, TextOf(mtime_clock + 1) \o <<NL>>)
        /\ handle' = IF Active(path)
                     THEN [handle EXCEPT !.owed = @ \cup {mtime_clock + 1}]
                     ELSE handle
    /\ mtime_clock' = mtime_clock + 1
    /\ UNCHANGED <<selected, dir_exists, parseVars, watcher, watch_stop, watch_pc,
                   current_path, line_buffer, inner_stop, checker, emitted>>
    /\ UNCHANGED <<sys, now, smVars, pkgVars, topVars, wledVars, tailVars>>

\* the session writer appends the beginning of a line
Write_part ==
    /\ sys = "watch"
    /\ mtime_clock < InitClock + MaxWrites
    /\ dir_exists
    /\ \E path \in WatchNames :
        /\ ~EndsInPart(path)
        /\ sessions_dir' = Written(path, <<mtime_clock + 1>>)
    /\ mtime_clock' = mtime_clock + 1
    /\ UNCHANGED <<selected, dir_exists, parseVars, watchVars>>
    /\ UNCHANGED <<sys, now, smVars, pkgVars, topVars, wledVars, tailVars>>

\* the session writer appends the rest of the line it began
Write_rest ==
    /\ sys = "watch"
    /\ mtime_clock < InitClock + MaxWrites
    /\ dir_exists
    /\ \E path \in WatchNames :
        /\ EndsInPart(path)
        /\ LET k == content_of(path)[Len(content_of(path))] IN
           /\ sessions_dir' = Written(path, <<0 - k, NL>>)
           /\ handle' = IF Active(path) /\ Len(content_of(path)) > handle.old
                        THEN [handle EXCEPT !.owed = @ \cup {k}]
                        ELSE handle
    /\ mtime_clock' = mtime_clock + 1
    /\ UNCHANGED <<selected, dir_exists, parseVars, watcher, watch_stop, watch_pc,
                   current_path, line_buffer, inner_stop, checker, emitted>>
    /\ UNCHANGED <<sys, now, smVars, pkgVars, topVars, wledVars, tailVars>>

\* stop_event.set()
set_watch_stop ==
    /\ sys = "watch"
    /\ ~watch_stop
    /\ watch_stop' = TRUE
    /\ UNCHANGED <<dirVars, parseVars, watcher, watch_pc, current_path, handle,
                   line_buffer, inner_stop, checker, emitted>>
    /\ UNCHANGED <<sys, now, smVars, pkgVars, topVars, wledVars, tailVars>>

\* somebody creates the sessions directory
mkdir ==
    /\ sys = "watch"
    /\ ~dir_exists
    /\ dir_exists' = TRUE
    /\ UNCHANGED <<sessions_dir, selected, mtime_clock, parseVars, watchVars>>
    /\ UNCHANGED <<sys, now, smVars, pkgVars, topVars, wledVars, tailVars>>

\* stop_event.is_set() as the tailer reads it; a tailer that never looks
StopSeen_Never == FALSE
StopSeen == watch_stop

\* fh.seek(0, os.SEEK_END); a seek to the start instead
seek_start(content) == 0
seek_end(content) == Len(content)

\* open(path); fh.seek(0, os.SEEK_END)
open_at_end(path) ==
    [open |-> TRUE, path |-> path, pos |-> seek_end(content_of(path)),
     old |-> Len(content_of(path)), owed |-> {}]

\* the read position after fh.read() / fh.readline() returned the units l;
\* a position that stays where it was
advance_Stuck(pos, l) == pos
advance(pos, l) == pos + Len(l)

\* index of the first "\n" of s, 0 when there is none
FirstNL(s) ==
    IF \E i \in 1..Len(s) : s[i] = NL
    THEN CHOOSE i \in 1..Len(s) : s[i] = NL /\ \A j \in 1..(i - 1) : s[j] # NL
    ELSE 0

\* fh.read(): what is in the file after the read position
read(h) == SubSeq(content_of(h.path), h.pos + 1, Len(content_of(h.path)))

\* fh.readline(): up to and including the next "\n", or up to the end of
\* the file when there is none
readline(h) ==
    IF FirstNL(read(h)) = 0 THEN read(h) ELSE SubSeq(read(h), 1, FirstNL(read(h)))

\* line.rstrip("\n") of a readline() result
rstrip_nl(l) ==
    IF l # <<>> /\ l[Len(l)] = NL THEN SubSeq(l, 1, Len(l) - 1) ELSE l

\* watch_sessions of the package from the loop head (lines 72-91) to its
\* next suspension: the yield, a sleep, or the end
pkg_watch_loop ==
    /\ dir_exists' = TRUE
    /\ UNCHANGED <<line_buffer, inner_stop, checker>>
    /\ IF StopSeen
       THEN /\ handle' = [handle EXCEPT !.open = FALSE]
            /\ watch_pc' = "done"
            /\ UNCHANGED <<current_path, emitted>>
       ELSE \E cand \in latest_session(watcher, sessions_dir) :
            LET switch == cand # NoPath /\ cand # current_path
                f == IF switch THEN open_at_end(cand) ELSE handle
                l == IF f.open THEN readline(f) ELSE <<>>
            IN /\ current_path' = IF switch THEN cand ELSE current_path
               /\ handle' = [f EXCEPT !.pos = advance(f.pos, l)]
               /\ IF l # <<>>
                  THEN /\ emitted' = Append(emitted, Emission(f.path, rstrip_nl(l)))
                       /\ watch_pc' = "yielded"
                  ELSE /\ emitted' = emitted
                       /\ watch_pc' = IF f.open THEN "sleep_poll" ELSE "sleep_watch"

\* watch_sessions of the top level from the head of its loop (lines 80-108)
\* to the first suspension: it ends, waits for a file, or starts the checker
\* and tail_file, which opens the file, seeks to its end, reads nothing and
\* sleeps.  The checker's first step finds inner_stop clear and sleeps.
top_watch_loop ==
    /\ dir_exists' = dir_exists
    /\ IF StopSeen
       THEN /\ watch_pc' = "done"
            /\ handle' = [handle EXCEPT !.open = FALSE]
            /\ line_buffer' = <<>>
            /\ UNCHANGED <<current_path, inner_stop, checker, emitted>>
       ELSE \E latest \in latest_session(watcher, sessions_dir) :
            IF latest = NoPath
            THEN /\ watch_pc' = "sleep_watch"
                 /\ handle' = [handle EXCEPT !.open = FALSE]
                 /\ line_buffer' = <<>>
                 /\ UNCHANGED <<current_path, inner_stop, checker, emitted>>
            ELSE /\ current_path' = latest
                 /\ inner_stop' = FALSE
                 /\ checker' = "sleep"
                 /\ handle' = open_at_end(latest)
                 /\ line_buffer' = <<>>
                 /\ watch_pc' = "sleep_poll"
                 /\ emitted' = emitted

\* the inner while of tail_file (top level lines 53-55) with the buffer b
\* and the handle h: the next line is yielded, or there is none and the
\* next read finds nothing, so that tail_file sleeps
top_tail_yield(b, h) ==
    /\ handle' = h
    /\ IF FirstNL(b) # 0
       THEN /\ emitted' = Append(emitted, Emission(h.path, SubSeq(b, 1, FirstNL(b) - 1)))
            /\ line_buffer' = SubSeq(b, FirstNL(b) + 1, Len(b))
            /\ watch_pc' = "yielded"
       ELSE /\ emitted' = emitted
            /\ line_buffer' = b
            /\ watch_pc' = "sleep_poll"
    /\ UNCHANGED <<current_path, inner_stop, checker, dir_exists>>

\* tail_file from the head of its loop (top level lines 46-57).  When
\* inner_stop is set it returns: the with block closes the file, the finally
\* of watch_sessions finds the checker done (only the checker sets
\* inner_stop, and it ends in the step that sets it), and the loop of
\* watch_sessions goes on.
top_tail_loop ==
    IF inner_stop
    THEN top_watch_loop
    ELSE top_tail_yield(line_buffer \o read(handle),
                        [handle EXCEPT !.pos = advance(handle.pos, read(handle))])

\* watch_sessions of the top level while the directory is missing (lines
\* 71-77), and from there into its loop once the directory exists
top_dir_wait ==
    IF dir_exists
    THEN top_watch_loop
    ELSE /\ watch_pc' = IF StopSeen THEN "done" ELSE "sleep_dir"
         /\ UNCHANGED <<dir_exists, current_path, handle, line_buffer,
                        inner_stop, checker, emitted>>

\* the consumer asks for the first line
watch_sessions ==
    /\ sys = "watch"
    /\ watch_pc = "new"
    /\ IF watcher = "clawbeam.session_watcher"
       THEN pkg_watch_loop
       ELSE top_dir_wait
    /\ UNCHANGED <<sessions_dir, selected, mtime_clock, parseVars, watcher, watch_stop>>
    /\ UNCHANGED <<sys, now, smVars, pkgVars, topVars, wledVars, tailVars>>

\* the consumer asks for the next line after a yield
WatchNextRequested ==
    /\ sys = "watch"
    /\ watch_pc = "yielded"
    /\ IF watcher = "clawbeam.session_watcher"
       THEN pkg_watch_loop
       ELSE IF FirstNL(line_buffer) # 0
            THEN top_tail_yield(line_buffer, handle)
            ELSE top_tail_loop
    /\ UNCHANGED <<sessions_dir, selected, mtime_clock, parseVars, watcher, watch_stop>>
    /\ UNCHANGED <<sys, now, smVars, pkgVars, topVars, wledVars, tailVars>>

\* asyncio.sleep(poll_interval) ends
WatchPollSleepEnds ==
    /\ sys = "watch"
    /\ watch_pc = "sleep_poll"
    /\ IF watcher = "clawbeam.session_watcher"
       THEN pkg_watch_loop
       ELSE top_tail_loop
    /\ UNCHANGED <<sessions_dir, selected, mtime_clock, parseVars, watcher, watch_stop>>
    /\ UNCHANGED <<sys, now, smVars, pkgVars, topVars, wledVars, tailVars>>

\* asyncio.sleep(watch_poll_interval) of watch_sessions ends (no file yet)
WatchSleepEnds ==
    /\ sys = "watch"
    /\ watch_pc = "sleep_watch"
    /\ IF watcher = "clawbeam.session_watcher"
       THEN pkg_watch_loop
       ELSE top_watch_loop
    /\ UNCHANGED <<sessions_dir, selected, mtime_clock, parseVars, watcher, watch_stop>>
    /\ UNCHANGED <<sys, now, smVars, pkgVars, topVars, wledVars, tailVars>>

\* asyncio.sleep(watch_poll_interval) of the wait for the directory ends
WatchDirSleepEnds ==
    /\ sys = "watch"
    /\ watch_pc = "sleep_dir"
    /\ top_dir_wait
    /\ UNCHANGED <<sessions_dir, selected, mtime_clock, parseVars, watcher, watch_stop>>
    /\ UNCHANGED <<sys, now, smVars, pkgVars, topVars, wledVars, tailVars>>

\* _check_newer (top level lines 99-109): its sleep ends
check_newer ==
    /\ sys = "watch"
    /\ checker = "sleep"
    /\ IF StopSeen
       THEN inner_stop' = TRUE /\ checker' = "done"
       ELSE \E newest \in latest_session(watcher, sessions_dir) :
            IF newest # NoPath /\ newest # current_path
            THEN inner_stop' = TRUE /\ checker' = "done"
            ELSE inner_stop' = inner_stop /\ checker' = "sleep"
    /\ UNCHANGED <<dirVars, parseVars, watcher, watch_stop, watch_pc,
                   current_path, handle, line_buffer, emitted>>
    /\ UNCHANGED <<sys, now, smVars, pkgVars, topVars, wledVars, tailVars>>

\* the files _latest_session stats (package line 55, top level line 25)
stat_candidates ==
    IF watcher = "clawbeam.session_watcher"
    THEN pkg_candidates(sessions_dir)
    ELSE top_candidates(sessions_dir)

\* A file that glob() listed is absent when _latest_session stats it or when
\* the tailer opens it (package lines 73 and 78, top level lines 84 and 42):
\* FileNotFoundError leaves watch_sessions, nothing in it catches it.  The
\* package stats on every pass of its loop and closes its file in finally
\* (89-91); the top level stats here while no file is being tailed.
WatchFileVanishes ==
    /\ sys = "watch"
    /\ ~StopSeen
    /\ dir_exists
    /\ stat_candidates # {}
    /\ IF watcher = "clawbeam.session_watcher"
       THEN watch_pc \in {"new", "yielded", "sleep_poll", "sleep_watch"}
       ELSE watch_pc \in {"new", "sleep_watch", "sleep_dir"}
    /\ watch_pc' = "raised"
    /\ handle' = [handle EXCEPT !.open = FALSE]
    /\ UNCHANGED <<dirVars, parseVars, watcher, watch_stop, current_path,
                   line_buffer, inner_stop, checker, emitted>>
    /\ UNCHANGED <<sys, now, smVars, pkgVars, topVars, wledVars, tailVars>>

\* The same absence met by _check_newer (top level line 106): the task ends
\* with FileNotFoundError, inner_stop stays clear, and tail_file goes on.
CheckerFileVanishes ==
    /\ sys = "watch"
    /\ checker = "sleep"
    /\ ~StopSeen
    /\ stat_candidates # {}
    /\ checker' = "raised"
    /\ UNCHANGED <<dirVars, parseVars, watcher, watch_stop, watch_pc,
                   current_path, handle, line_buffer, inner_stop, emitted>>
    /\ UNCHANGED <<sys, now, smVars, pkgVars, topVars, wledVars, tailVars>>

InitWatch ==
    /\ sys = "watch"
    /\ now = 0
    /\ sessions_dir \in InitDirs
    /\ selected = [called |-> FALSE, path |-> NoPath]
    /\ mtime_clock = InitClock
    /\ dir_exists \in BOOLEAN
    /\ ~dir_exists => sessions_dir = <<>>
    /\ watcher \in WatchVariants
    /\ watch_stop = FALSE
    /\ watch_pc = "new"
    /\ current_path = NoPath
    /\ handle = NoHandle
    /\ line_buffer = <<>>
    /\ inner_stop = FALSE
    /\ checker = "none"
    /\ emitted = <<>>
    /\ ParseUnused
    /\ SMUnused
    /\ WledUnused
    /\ TailUnused

NextWatch ==
    \/ watch_sessions
    \/ WatchNextRequested
    \/ WatchPollSleepEnds
    \/ WatchSleepEnds
    \/ WatchDirSleepEnds
    \/ check_newer
    \/ WatchFileVanishes
    \/ CheckerFileVanishes
    \/ Write_line
    \/ Write_part
    \/ Write_rest
    \/ set_watch_stop
    \/ mkdir

SpecWatch == InitWatch /\ [][NextWatch]_vars

\* every sleep ends, the checker task is run, and the consumer keeps asking
FairSpecWatch ==
    /\ SpecWatch
    /\ WF_vars(watch_sessions)
    /\ WF_vars(WatchNextRequested)
    /\ WF_vars(WatchPollSleepEnds)
    /\ WF_vars(WatchSleepEnds)
    /\ WF_vars(WatchDirSleepEnds)
    /\ WF_vars(check_newer)

--------------------------------------------------------------------------
(* Claims about watch_sessions *)

\* where the unit u stands in the file
PosOf(path, u) == CHOOSE i \in 1..Len(content_of(path)) : content_of(path)[i] = u

Emits(u) == \E i \in DOMAIN emitted : \E a \in DOMAIN emitted[i].text :
                emitted[i].text[a] = u

\* C11 (ordering across rotation): nothing appended is emitted twice (no
\* unit of a file occurs at two places of the emitted sequence), and the
\* lines emitted from one file follow each other as they stand in the file.
C11_Ordering ==
    /\ \A i, j \in DOMAIN emitted :
       \A a \in DOMAIN emitted[i].text, b \in DOMAIN emitted[j].text :
           emitted[i].text[a] = emitted[j].text[b] => (i = j /\ a = b)
    /\ \A i, j \in DOMAIN emitted :
           (i < j /\ emitted[i].path = emitted[j].path
                  /\ emitted[i].text # <<>> /\ emitted[j].text # <<>>)
               => PosOf(emitted[i].path, emitted[i].text[1])
                      < PosOf(emitted[j].path, emitted[j].text[1])

\* lines of one file, a switch, lines of the other file
C11_Witness ==
    \E i, j \in DOMAIN emitted :
        /\ i < j
        /\ emitted[i].path # emitted[j].path
        /\ handle.open
        /\ handle.path = emitted[j].path

\* the tailer leaves the file it has open for another file
Switch == handle.open /\ handle'.open /\ handle'.path # handle.path

\* C12 (no loss on rotation): when the tailer switches from its file to a
\* newer one, every line appended in full to the old file while the tailer
\* had it open has been emitted.
C12_NoLoss ==
    [][Switch => \A k \in handle.owed : Emits(k) /\ Emits(0 - k)]_vars

\* C13 (no replay): a line the tailer emits was not in the file when the
\* tailer opened it; it stands after the end the file had at the open, for
\* the first file as for every file opened by a switch.
C13_NoReplay ==
    [][emitted' # emitted =>
           LET e == emitted'[Len(emitted')] IN
           /\ e.path = handle'.path
           /\ \A a \in DOMAIN e.text :
                  PosOf(e.path, e.text[a]) > handle'.old]_vars

\* a line emitted from a file that had content when a switch opened it
C13_Witness ==
    /\ Len(emitted) >= 2
    /\ emitted[1].path # emitted[Len(emitted)].path
    /\ handle.open
    /\ handle.path = emitted[Len(emitted)].path
    /\ handle.old > 0

\* C15 (tailer termination): once the stop signal is set, watch_sessions
\* ends (by returning, or with the exception of a vanished file), from
\* whichever suspension point it is at, and no file is open then.
C15_Termination == watch_stop ~> (watch_pc \in {"done", "raised"} /\ ~handle.open)

--------------------------------------------------------------------------
(* Further claims about the package state machine *)

\* C21 (observer failure containment): an exception of the transition
\* observer never leaves handle_event, set_network_error or
\* clear_network_error to its caller, and never ends the idle-timer task:
\* no task's call ends with an exception.
C21_ObserverContained == \A t \in Tasks : task[t].exc = None

\* the idle timer forces IDLE in this step
IdleForced ==
    /\ observed' # observed
    /\ observed'[4] = "_idle_watcher"
    /\ observed'[2] = "IDLE"

\* C22 (activity supersedes the idle timer): the idle timer forces IDLE no
\* earlier than idle_timeout after the most recent handle_event call,
\* whether or not that call produced a transition.
C22_ActivitySupersedes ==
    [][(sys = "pkg" /\ IdleForced /\ handled.at # NoTime)
           => now - handled.at >= cfg.idle_timeout]_vars


--------------------------------------------------------------------------
(* Further claims about watch_sessions *)

\* C29 (file-system transients are never fatal): a missing directory, or a
\* listed file that is gone when it is stat-ed or opened, raises nothing out
\* of watch_sessions and ends none of its tasks; it keeps polling.
C29_TransientsNotFatal == watch_pc # "raised" /\ checker # "raised"

--------------------------------------------------------------------------
(* Claims about the Orchestrator's sends (package state machine) *)

\* task t enters the observer: Orchestrator._on_transition starts
\* apply_state for the transition just committed
SendBegins(t) == task[t].pc # "observer" /\ task'[t].pc = "observer"

SendInFlight == \E t \in Tasks : task[t].pc = "observer"

\* C24 (a slow send does not block the state machine): while a send is in
\* flight, with no minimum duration or debounce in the way and a further
\* event to come, some step records a further transition.
C24_SlowSendDoesNotBlock ==
    (/\ sys = "pkg"
     /\ SendInFlight
     /\ cfg.min_state_duration = 0
     /\ cfg.debounce_window = 0
     /\ calls < MaxCalls)
        => ENABLED (NextPkg /\ state' # state)

--------------------------------------------------------------------------
(* Further claims about the WledClient *)

\* C27 (success criterion): a POST or a GET answered with any 2xx status
\* succeeds: apply_state returns True without a further attempt, and ping
\* leaves healthy True.
C27_Any2xxSucceeds ==
    [][\A r \in {"200", "204"} :
         /\ \A t \in Posters :
                PostAnswered(t, r) =>
                    /\ wtask'[t].pc = "idle"
                    /\ wtask'[t].ret = "True"
                    /\ healthy'
         /\ PingAnswered(r) => healthy']_vars

\* C25 (shutdown ordering): the HTTP client is released only when the health
\* loop has ended or was never started; a loop that close() has cancelled
\* takes no further step but its end, wherever it was suspended; and after
\* the release the health task does nothing and no request goes out.
C25_ShutdownOrdering ==
    /\ [](closed => wtask["health"].pc \in {"idle", "done"})
    /\ [][wtask["health"].must_cancel =>
              \/ wtask'["health"] = wtask["health"]
              \/ wtask'["health"].pc = "done" /\ rate_holder' # "health"]_vars
    /\ [][closed => (wire' = wire /\ wtask'["health"] = wtask["health"])]_vars

\* the client was released after the loop was cancelled while it slept in
\* the rate gate, holding the rate lock, which it gave up
C25_Witness ==
    /\ closed
    /\ wtask["health"].pc = "done"
    /\ wtask["health"].ret = "rate_sleep"
    /\ rate_holder = None

\* the health loop's probe is answered in this step, with r
ProbeAnswered(r) ==
    /\ wtask["health"].pc = "request"
    /\ wtask'["health"].pc # "request"
    /\ ~wtask["health"].must_cancel
    /\ wtask'["health"].answers = LastTwo(Append(wtask["health"].answers, r))

\* C26 (health probe robustness): a probe answered with a transport error or
\* an error status leaves healthy False, one answered with 200 leaves it
\* True, in both cases the loop goes on to its next interval sleep; and the
\* loop ends in no other way than by the cancellation close() asked for.
C26_ProbeRobust ==
    [][/\ \A r \in {"500", "ConnectError"} :
              ProbeAnswered(r) =>
                  /\ ~healthy'
                  /\ wtask'["health"].pc = "interval"
                  /\ wtask'["health"].wake = now + wcfg.health_check_interval
       /\ ProbeAnswered("200") =>
              /\ healthy'
              /\ wtask'["health"].pc = "interval"
              /\ wtask'["health"].wake = now + wcfg.health_check_interval
       /\ (wtask["health"].pc # "done" /\ wtask'["health"].pc = "done") =>
              wtask["health"].must_cancel]_vars

\* a probe failed in the transport, the next one succeeded: the loop is in
\* its interval sleep with healthy True again
C26_Witness ==
    /\ wtask["health"].answers = <<"ConnectError", "200">>
    /\ wtask["health"].pc = "interval"
    /\ healthy
    /\ ~closed

\* poster t's attempt is answered in this step, with r
AttemptAnswered(t, r) ==
    /\ wtask[t].pc = "request"
    /\ wtask'[t].pc # "request"
    /\ wtask'[t].answers = Append(wtask[t].answers, r)

\* C30 (back-off schedule): after a failed first attempt the call sleeps
\* BACKOFF_BASE, after a failed second one twice that, and the next attempt
\* starts no earlier; after a failed third attempt it returns False and
\* after a successful one True, without a sleep.
C30_BackoffSchedule ==
    [][\A t \in Posters :
         /\ \A r \in {"500", "ConnectError"} :
                AttemptAnswered(t, r) =>
                    CASE wtask[t].attempt = 1 ->
                             /\ wtask'[t].pc = "backoff"
                             /\ wtask'[t].wake = now + BACKOFF_BASE
                      [] wtask[t].attempt = 2 ->
                             /\ wtask'[t].pc = "backoff"
                             /\ wtask'[t].wake = now + 2 * BACKOFF_BASE
                      [] OTHER ->
                             /\ wtask[t].attempt = MAX_RETRIES
                             /\ wtask'[t].pc = "idle"
                             /\ wtask'[t].ret = "False"
         /\ AttemptAnswered(t, "200") =>
                (wtask'[t].pc = "idle" /\ wtask'[t].ret = "True")
         /\ (wtask[t].pc = "backoff" /\ wtask'[t].pc # "backoff") =>
                /\ now >= wtask[t].wake
                /\ wtask'[t].attempt = wtask[t].attempt + 1]_vars

\* the second attempt has just failed: the call sleeps for two seconds
C30_Witness ==
    /\ wtask["post"].pc = "backoff"
    /\ wtask["post"].attempt = 2
    /\ wtask["post"].wake = now + 2
    /\ Len(wtask["post"].answers) = 2

--------------------------------------------------------------------------
(* Claims about Orchestrator.run *)

\* C28 (escalation completeness): every apply_state result of False that
\* reaches the Orchestrator, the one of the initial IDLE application
\* included, has set_network_error() called for it (in the same step: no
\* suspension point lies between the result and the call).
C28_EscalationComplete ==
    [][fails' # fails =>
          \E t \in Tasks :
              \/ task[t].pc # "nested" /\ task'[t].pc = "nested"
              \/ task'[t].pc = "observer" /\ task'[t].ep = "set_network_error"]_vars

--------------------------------------------------------------------------
(* Claims about the package state machine's idle timer *)

\* the idle watchers that have not run their request yet: asleep, or waiting
\* for the lock
PendingTimers == {w \in Watchers : task[w].pc \in {"sleep", "lock"}}

\* C36 (idle-timer invariant): at most one idle timer is pending; it is the
\* one _idle_task names, it watches the current state and that state is not
\* IDLE; and after every commit the only timer pending is a fresh one for
\* the new state (none when the new state is IDLE).
C36_IdleTimer ==
    /\ [](sys = "pkg" =>
            /\ Cardinality(PendingTimers) <= 1
            /\ \A w \in PendingTimers :
                   /\ idle_task = w
                   /\ task[w].watched = state
                   /\ state # "IDLE")
    /\ [][(sys = "pkg" /\ state' # state) =>
              /\ \A w \in PendingTimers' :
                     /\ task'[w].pc = "sleep"
                     /\ task'[w].watched = state'
                     /\ task'[w].wake = now + cfg.idle_timeout
              /\ state' = "IDLE" => PendingTimers' = {}]_vars

\* a second non-IDLE state was committed while the first one's timer was
\* pending: one timer is pending, for the second state
C36_Witness ==
    /\ sys = "pkg"
    /\ calls >= 2
    /\ PendingTimers # {}
    /\ state # "IDLE"
    /\ \E k \in Pairs : k[1] # "IDLE" /\ k[2] = state /\ fired[k] # NoTime

\* C37 (the idle-timeout notification is delivered): an idle watcher that is
\* inside the observer has no cancellation waiting for it, so that the
\* observer's call runs to its end.
C37_IdleNotificationDelivered ==
    sys = "pkg" =>
        \A w \in Watchers : task[w].pc = "observer" => ~task[w].must_cancel

--------------------------------------------------------------------------
(* Further claims about both state machines *)

\* task t leaves the observer and its entry point: the observer returned,
\* raised, or (an idle watcher of the package) was cancelled
ObserverLeft(t) == task[t].pc = "observer" /\ task'[t].pc = "idle"

\* C32 (commit before notify): in the step that invokes the observer the
\* new state, its entry time and the debounce record are written; when the
\* observer's call ends, by an exception too, they keep their values, and
\* the package's lock is free for the next entry-point call.
C32_CommitBeforeNotify ==
    [][\A t \in Tasks :
         /\ SendBegins(t) =>
                /\ state' = observed'[2]
                /\ state # state'
                /\ state_entered_at' = now
                /\ IF sys = "pkg"
                   THEN last_transition_times'[<<state, state'>>] = now
                   ELSE /\ last_transition_key' = <<state, state'>>
                        /\ last_transition_time' = now
         /\ ObserverLeft(t) =>
                /\ UNCHANGED <<state, state_entered_at, last_transition_times,
                               last_transition_key, last_transition_time>>
                /\ sys = "pkg" => lock_holder' = None]_vars

\* the observer raised in a call of the package machine, which has since
\* committed the transition of a later handle_event call
C32_Witness ==
    /\ sys = "pkg"
    /\ task["aux"].exc = "Exception"
    /\ task["main"].pc = "observer"
    /\ task["main"].ep = "handle_event"
    /\ state = task["main"].new

\* C34 (debounce in the top-level machine): a pair (old, new) is committed
\* no sooner than debounce_window after the observer last saw the same
\* pair, whatever was committed in between.
C34_TopDebounce ==
    [][(sys = "top" /\ state' # state) =>
          LET k == <<state, state'>> IN
          fired[k] = NoTime \/ now - fired[k] >= cfg.debounce_window]_vars

--------------------------------------------------------------------------
(* Stopping tail_file *)

\* C38: once stop_event is set, tail_file yields no further line, complete
\* lines already in its buffer included.
C38_StopCutsEmission == [][(sys = "tail" /\ stop_event) => yielded' = yielded]_vars

--------------------------------------------------------------------------
(* Partial writes in the package watch_sessions *)

\* C33: the package watch_sessions emits whole lines only: an emission
\* that begins at the beginning of a line written in two parts holds the
\* whole line, never the first part alone.
C33_PartialWrites ==
    (sys = "watch" /\ watcher = "clawbeam.session_watcher") =>
        \A i \in DOMAIN emitted :
            (emitted[i].text # <<>> /\ emitted[i].text[1] > NL)
                => emitted[i].text = TextOf(emitted[i].text[1])

--------------------------------------------------------------------------
(* Serialization in the top-level StateMachine *)

\* the tasks that are inside _try_transition, suspended in the observer
InTransition == {t \in Tasks : task[t].pc = "observer"}

\* C35: in the top-level machine two transition routines are never in
\* progress at the same time: the idle timer does not run one while an
\* entry point is suspended inside its observer.
C35_TopSerialization == sys = "top" => Cardinality(InTransition) <= 1

--------------------------------------------------------------------------
(* Termination of a send *)

InCall(t) == wtask[t].pc # "idle"

\* the suspension points of one attempt, in the order _post passes them
Phase(pc) ==
    CASE pc = "rate_lock"    -> 5
      [] pc = "rate_granted" -> 4
      [] pc = "rate_sleep"   -> 3
      [] pc = "request"      -> 2
      [] pc = "backoff"      -> 1
      [] OTHER               -> 0

\* what is left of an apply_state call: the attempts to come and the
\* suspension points of the current one
Rank(tk) ==
    IF tk.pc = "idle" THEN 0 ELSE 5 * (MAX_RETRIES - tk.attempt) + Phase(tk.pc)

\* C31 (send termination): an apply_state call makes at most MAX_RETRIES = 3
\* passes through the rate gate and requests and at most 2 back-off sleeps;
\* wherever it is suspended, what resumes it is there (a sleep with a bounded
\* wake-up time; for the rate lock a place in its queue behind a holder that
\* is itself in a bounded sleep or about to run), also when the holder is
\* the health loop; and every step of the call brings it nearer to its
\* return, so that it returns once its requests are answered.
C31_SendTermination ==
    /\ [](sys = "wled" =>
            \A t \in Posters : InCall(t) =>
                /\ wtask[t].attempt \in 1..MAX_RETRIES
                /\ Len(Sent(t)) <= wtask[t].attempt
                /\ Len(Sent(t)) >= wtask[t].attempt - 1
                /\ wtask[t].pc = "rate_lock" =>
                       /\ \E i \in DOMAIN rate_waiters : rate_waiters[i] = t
                       /\ rate_holder \in WledTasks \ {t}
                       /\ wtask[rate_holder].pc \in {"rate_granted", "rate_sleep"}
                /\ wtask[t].pc = "rate_granted" => rate_holder = t
                /\ wtask[t].pc = "rate_sleep" =>
                       /\ rate_holder = t
                       /\ wtask[t].wake # NoTime
                       /\ wtask[t].wake - now <= wcfg.min_interval
                /\ wtask[t].pc = "backoff" =>
                       /\ wtask[t].attempt < MAX_RETRIES
                       /\ wtask[t].wake # NoTime
                       /\ wtask[t].wake - now <= Backoff(MAX_RETRIES - 1))
    /\ [][\A t \in Posters :
              (InCall(t) /\ wtask'[t] # wtask[t]) =>
                  Rank(wtask'[t]) < Rank(wtask[t])]_vars

\* the third attempt of a call waits for the rate lock behind the health
\* loop's probe
C31_Witness ==
    /\ sys = "wled"
    /\ wtask["post"].pc = "rate_lock"
    /\ wtask["post"].attempt = MAX_RETRIES
    /\ rate_holder = "health"

--------------------------------------------------------------------------
(* The controller with its health loop (src/clawbeam/main.py lines 38-48): *)
(* the package state machine fed by the run loop, and the client's health  *)
(* loop probing the device in the background.                              *)

\* the state machine's configuration in these behaviours: no anti-flicker
\* delay, no debounce, the idle timeout one second
ProbeRunConfig == [min_state_duration |-> 0, debounce_window |-> 0, idle_timeout |-> 1]

\* lines 38-45: the client and the state machine are constructed and the
\* health loop is started (wled_client.py lines 86-88, 134); the main task
\* is about to apply the initial IDLE effect
InitProbe ==
    /\ sys = "pkg"
    /\ now = 0
    /\ cfg = ProbeRunConfig
    /\ SMFieldsConstructed
    /\ task = [t \in Tasks |->
                  IF t = "main" THEN [NoTask EXCEPT !.pc = "startup"] ELSE NoTask]
    /\ wcfg = [min_interval |-> 2, health_check_interval |-> 1]
    /\ WledFieldsConstructed
    /\ wtask = [t \in WledTasks |->
                   IF t = "health"
                   THEN [NoWledTask EXCEPT !.pc = "interval",
                                           !.wake = now + wcfg.health_check_interval]
                   ELSE NoWledTask]
    /\ TailUnused
    /\ RestUnused

\* what a probe is answered in these behaviours: the device is well, or
\* cannot be reached
ProbeAnswers == {"200", "ConnectError"}

\* the log events of these behaviours
ProbeEvents == {e \in EventInputs : e.event_type = "USER_INPUT"}

NextProbe ==
    \/ \E ok \in BOOLEAN : initial_apply_effect(ok)
    \/ \E e \in ProbeEvents : handle_event("main", e)
    \/ set_network_error("aux")
    \/ clear_network_error("aux")
    \/ \E t \in Tasks : LockGranted(t)
    \/ \E w \in Watchers : idle_watcher(w)
    \/ \E t \in Tasks : ObserverReturns(t)
    \/ \E t \in Callers : ObserverFails(t)
    \/ \E t \in Tasks : ObserverRaises(t)
    \/ \E w \in Watchers : ObserverCancelled(w)
    \/ Tick
    \/ HealthSleepEnds
    \/ RateSleepEnds("health")
    \/ \E r \in ProbeAnswers : PingAnswered(r)

SpecProbe == InitProbe /\ [][NextProbe]_vars

\* a step of the health task: the loop's sleep ends, ping passes the rate
\* gate, the probe is answered
HealthStep == wtask'["health"] # wtask["health"]

\* C39: a step of ping or of the health loop changes, besides the task's own
\* position, only the healthy flag, the last-request timestamp and the rate
\* gate; it changes nothing of the state machine.  The machine leaves
\* NETWORK_ERROR only by a log event, the idle timeout or
\* clear_network_error, and enters it only by set_network_error.
C39_ProbesLeaveLampAlone ==
    /\ [][(sys = "pkg" /\ HealthStep) =>
              UNCHANGED <<smVars, pkgVars, topVars, wcfg, closed, posts, now>>]_vars
    /\ [][(sys = "pkg" /\ state # state') =>
              /\ ~HealthStep
              /\ state = "NETWORK_ERROR" =>
                     observed'[4] \in {"handle_event", "_idle_watcher",
                                       "clear_network_error"}
              /\ state' = "NETWORK_ERROR" => observed'[4] = "set_network_error"]_vars

\* a probe sent after the machine entered NETWORK_ERROR was answered 200:
\* the client is healthy again and the machine still shows NETWORK_ERROR
C39_Witness ==
    /\ sys = "pkg"
    /\ state = "NETWORK_ERROR"
    /\ healthy
    /\ wtask["health"].pc = "interval"
    /\ wtask["health"].answers # <<>>
    /\ wtask["health"].answers[Len(wtask["health"].answers)] = "200"
    /\ wire # <<>>
    /\ wire[3] > state_entered_at

====
